---- MODULE Spec2Model ----
(***************************************************************************)
(* NovelPolisher backend: text preprocessing (preprocess.py), chapter      *)
(* segmentation (chapter_split.py), chunk packing (chunking.py) and the    *)
(* chunk processing loop of main.py with its checkpoint store              *)
(* (checkpoint.py) and output collection (exporters.py).                   *)
(*                                                                         *)
(* A Python str is a sequence of characters.  Characters are written as    *)
(* TLA+ strings: "a" an ordinary lower-case letter, "A" an upper-case      *)
(* letter, "." a full stop, "1" a decimal digit, ":" the colon, "-" the    *)
(* hyphen, "EM" the em dash, "SP" a space, "NL" the newline '\n', "CR" the *)
(* carriage return '\r'.  Some characters stand for runs of letters and    *)
(* carry the length of the run: "Chuong", "CHUONG" and "chuong" are the    *)
(* word 'chương' spelled 'Chương', 'CHƯƠNG' and 'chương' (patterns         *)
(* compiled with re.IGNORECASE take any of them), "Page" is the word       *)
(* 'Page' and "X" is a run of BlockLen lower-case letters.  len() is       *)
(* StrLen, the sum of the run lengths.                                     *)
(***************************************************************************)
EXTENDS Integers, Sequences, FiniteSets

VARIABLES
    raw_text,           \* preprocess_text: the argument text
    page_texts,         \* preprocess_text: the argument page_texts, as runs of equal pages
    repeating_lines,    \* preprocess_text: the set of lines to remove
    lines,              \* preprocess_text: the list of lines of the text
    line_i,             \* preprocess_text: the index i of the line pass
    processed_lines,    \* preprocess_text: the list of lines kept so far
    results,            \* the strings returned by the calls of preprocess_text made so far
    join_current,       \* should_join_lines: the argument current_line
    join_next,          \* should_join_lines: the argument next_line
    join_result,        \* should_join_lines: the value returned (FALSE before the return)
    text,               \* split_into_chapters: the argument
    matches,            \* split_into_chapters: list(CHAPTER_PATTERN.finditer(text))
    mi,                 \* split_into_chapters: index of the match the loop is at
    chapters,           \* the Chapter list (result of split_into_chapters, argument of create_chunks)
    max_chars,          \* create_chunks: the argument
    all_chunks,         \* create_chunks: the Chunk list (chunks in main)
    chunk_chapter_idx,  \* for each element of all_chunks, the index of its chapter
    ci,                 \* create_chunks: index of the chapter the loop is at
    chunks_done,        \* CheckpointManager._chunks_done
    checkpoint_file,    \* chunks_done as saved in checkpoint.json
    chunk_files,        \* the files chunks_dir/<chunk_id>.md: chunk_id -> content
    li,                 \* main: index of the chunk the processing loop is at
    api_calls,          \* main: the indices of the chunks client.generate was called for
    chunk_outputs,      \* main: the dict returned by collect_chunk_outputs
    runs,               \* number of runs of main started on this output directory
    run_params,         \* main: the arguments checkpoint.initialize is given in this run
    overwrite,          \* main: args.overwrite
    checkpoint_status,  \* checkpoint.json: "absent", "partial" (opened for writing, not yet written) or "saved"
    checkpoint_params,  \* checkpoint.json: the parameters saved in it
    prev_run,           \* the run before this one, if an API error stopped it: its exit, parameters and done set
    model_set,          \* GeminiClient: self._model is not None
    max_retries,        \* GeminiClient.generate: the argument
    retry_delay,        \* GeminiClient.generate: the argument
    attempt,            \* GeminiClient.generate: the loop variable
    model_calls,        \* the number of calls of self._model.generate_content made
    sleeps,             \* the arguments of the time.sleep calls made, in order
    last_error,         \* GeminiClient.generate: str(last_error) (empty for None)
    gen_result,         \* GeminiClient.generate: what the call ended with
    pc                  \* position in the running function

vars == <<raw_text, page_texts, repeating_lines, lines, line_i, processed_lines, results,
          join_current, join_next, join_result,
          text, matches, mi, chapters, max_chars, all_chunks, chunk_chapter_idx, ci,
          chunks_done, checkpoint_file, chunk_files, li, api_calls, chunk_outputs, runs,
          run_params, overwrite, checkpoint_status, checkpoint_params, prev_run,
          model_set, max_retries, retry_delay, attempt, model_calls, sleeps, last_error,
          gen_result, pc>>

joinVars == <<join_current, join_next, join_result>>

preVars == <<raw_text, page_texts, repeating_lines, lines, line_i, processed_lines, results,
             joinVars>>

splitVars == <<text, matches, mi>>

runVars == <<run_params, overwrite, checkpoint_status, checkpoint_params, prev_run>>

genVars == <<model_set, max_retries, retry_delay, attempt, model_calls, sleeps, last_error,
             gen_result>>

mainVars == <<chunks_done, checkpoint_file, chunk_files, li, api_calls, chunk_outputs, runs,
              runVars, genVars>>

----------------------------------------------------------------------------
(* Bounds of the model *)

MaxTextLen == 7
MaxChapters == 2
MaxMaxChars == 6
MaxSplitLen == 4
MaxLines == 3
MaxRuns == 2
MaxPreLines == 2
MaxCalls == 2
MaxJoinLen == 2
MaxRetries == 3

----------------------------------------------------------------------------
(* Strings *)

PrologueMinLen == 100
WordLen == 6
BlockLen == PrologueMinLen \div 2

\* the spellings of the word 'chương' the model has
ChuongWords == {"Chuong", "CHUONG", "chuong"}

\* len() of one character of the model
CharLen(c) ==
    IF c = "X" THEN BlockLen
    ELSE IF c \in ChuongWords THEN WordLen
    ELSE IF c = "Page" THEN Len(<<"P", "a", "g", "e">>)
    ELSE 1

RECURSIVE StrLen(_)
StrLen(s) == IF s = <<>> THEN 0 ELSE CharLen(Head(s)) + StrLen(Tail(s))

\* whitespace, as str.strip() and the regex class \s see it
IsSpace(c) == c \in {"SP", "NL", "CR"}

Slice(s, a, b) == IF a > b THEN <<>> ELSE SubSeq(s, a, b)

RECURSIVE LStrip(_)
LStrip(s) == IF s /= <<>> /\ IsSpace(Head(s)) THEN LStrip(Tail(s)) ELSE s

RECURSIVE RStrip(_)
RStrip(s) ==
    IF s /= <<>> /\ IsSpace(s[Len(s)]) THEN RStrip(SubSeq(s, 1, Len(s) - 1)) ELSE s

\* str.strip()
Strip(s) == RStrip(LStrip(s))

\* length of the run of whitespace that starts at index i of s
RECURSIVE SpaceRun(_, _)
SpaceRun(s, i) == IF i <= Len(s) /\ IsSpace(s[i]) THEN 1 + SpaceRun(s, i + 1) ELSE 0

\* all strings over alphabet A of at most n characters
Str(A, n) == UNION {[1..k -> A] : k \in 0..n}

RECURSIVE Digits(_)
\* the decimal digits of n >= 0
Digits(n) ==
    LET d == <<"0", "1", "2", "3", "4", "5", "6", "7", "8", "9">>[(n % 10) + 1]
    IN  IF n < 10 THEN <<d>> ELSE Digits(n \div 10) \o <<d>>

RECURSIVE Zeros(_)
Zeros(k) == IF k <= 0 THEN <<>> ELSE <<"0">> \o Zeros(k - 1)

\* format spec {n:0wd}
ZeroPad(n, w) == Zeros(w - Len(Digits(n))) \o Digits(n)

----------------------------------------------------------------------------
(* chapter_split.py *)

\* the Chapter dataclass
Chapter(n, t, s) == [number |-> n, title |-> t, text |-> s]

\* CHAPTER_PATTERN = ^\s*chương\s+(\d{1,5})\s*(?:[:：.\-–—]\s*(.+?))?\s*$
\* with re.IGNORECASE | re.MULTILINE.  An offset p of s lies between s[p]
\* and s[p + 1]; offsets run from 0 to Len(s).

IsDigit(c) == c \in {"0", "1", "2", "3", "4", "5", "6", "7", "8", "9"}

\* the separator class [:：.\-–—]
IsSeparator(c) == c \in {":", ".", "-", "EM"}

\* ^ under re.MULTILINE
AtLineStart(s, p) == p = 0 \/ s[p] = "NL"

\* $ under re.MULTILINE
AtLineEnd(s, p) == p = Len(s) \/ s[p + 1] = "NL"

\* length of the run of digits that starts at index i of s
RECURSIVE DigitRun(_, _)
DigitRun(s, i) == IF i <= Len(s) /\ IsDigit(s[i]) THEN 1 + DigitRun(s, i + 1) ELSE 0

\* length of the run of characters other than '\n' that starts at index i of s
RECURSIVE DotRun(_, _)
DotRun(s, i) == IF i <= Len(s) /\ s[i] /= "NL" THEN 1 + DotRun(s, i + 1) ELSE 0

\* \s*$ tried at offset e: the greedy \s* gives back whitespace until $
\* matches; the offset where the match ends, -1 when there is none
TailEnd(s, e) ==
    LET ends == {j \in 0..SpaceRun(s, e + 1) : AtLineEnd(s, e + j)}
    IN  IF ends = {} THEN -1
        ELSE e + (CHOOSE j \in ends : \A k \in ends : k <= j)

\* \s*(.+?) followed by \s*$, tried at offset q (just after the separator):
\* the greedy \s* is tried longest first, the lazy .+? shortest first.
\* The set of <<whitespace skipped, title length>> that match.
TitleCandidates(s, q) ==
    {c \in (0..SpaceRun(s, q + 1)) \X (1..Len(s)) :
        /\ c[2] <= DotRun(s, q + c[1] + 1)
        /\ TailEnd(s, q + c[1] + c[2]) /= -1}

\* the candidate the backtracking search finds first
FirstTitle(s, q) ==
    CHOOSE c \in TitleCandidates(s, q) :
        \A d \in TitleCandidates(s, q) :
            c[1] > d[1] \/ (c[1] = d[1] /\ c[2] <= d[2])

NoMatch == [ok |-> FALSE]

\* CHAPTER_PATTERN matched at offset p: the match object, or NoMatch
MatchAt(s, p) ==
    LET k == p + SpaceRun(s, p + 1)          \* offset of the word
        w1 == SpaceRun(s, k + 2)             \* \s+
        d0 == k + 1 + w1                     \* offset of the digits
        nd == DigitRun(s, d0 + 1)            \* (\d{1,5})
        d == d0 + nd
        g == d + SpaceRun(s, d + 1)          \* offset of the separator
        grouped == /\ g < Len(s)
                   /\ IsSeparator(s[g + 1])
                   /\ TitleCandidates(s, g + 1) /= {}
    IN  IF ~(/\ AtLineStart(s, p)
             /\ k < Len(s)
             /\ s[k + 1] \in ChuongWords
             /\ w1 >= 1
             /\ nd >= 1
             /\ nd <= 5)
        THEN NoMatch
        ELSE IF grouped
        THEN LET c == FirstTitle(s, g + 1)
                 t0 == g + 1 + c[1]
             IN  [ok |-> TRUE, start |-> p, end |-> TailEnd(s, t0 + c[2]),
                  digits |-> Slice(s, d0 + 1, d),
                  title |-> Slice(s, t0 + 1, t0 + c[2])]
        ELSE IF TailEnd(s, d) /= -1
        THEN [ok |-> TRUE, start |-> p, end |-> TailEnd(s, d),
              digits |-> Slice(s, d0 + 1, d), title |-> <<>>]
        ELSE NoMatch

RECURSIVE FindAll(_, _)
\* list(CHAPTER_PATTERN.finditer(text)), scanning from offset pos
FindAll(s, pos) ==
    IF \E p \in pos..Len(s) : MatchAt(s, p).ok
    THEN LET p == CHOOSE p \in pos..Len(s) :
                    /\ MatchAt(s, p).ok
                    /\ \A q \in pos..(p - 1) : ~MatchAt(s, q).ok
             m == MatchAt(s, p)
         IN  <<m>> \o FindAll(s, IF m.end > p THEN m.end ELSE p + 1)
    ELSE <<>>

\* int(match.group(1))
RECURSIVE ParseInt(_)
ParseInt(ds) ==
    IF ds = <<>> THEN 0
    ELSE 10 * ParseInt(SubSeq(ds, 1, Len(ds) - 1))
         + (CHOOSE v \in 0..9 : Digits(v) = <<ds[Len(ds)]>>)

\* the literals "Toàn bộ nội dung" and "Mở đầu", each written as one character
TitleWholeText == <<"Toan bo noi dung">>
TitlePrologue == <<"Mo dau">>

\* f"Chương {chapter_num}"
DefaultTitle(n) == <<"CHUONG", "SP">> \o Digits(n)

\* the Chapter returned when no heading is found
\* (WholeTextChapterUnstripped: the same without .strip())
WholeTextChapterUnstripped(s) == Chapter(1, TitleWholeText, s)
WholeTextChapter(s) == Chapter(1, TitleWholeText, Strip(s))

\* the Chapter of match i (body of the match loop)
\* (ChapterOfMatchToEnd: the same with end_pos = len(text) for every match)
ChapterOfMatchToEnd(s, ms, i) ==
    LET chapter_num == ParseInt(ms[i].digits)
    IN  Chapter(chapter_num,
                Strip(IF ms[i].title /= <<>> THEN ms[i].title ELSE DefaultTitle(chapter_num)),
                Strip(Slice(s, ms[i].end + 1, Len(s))))
ChapterOfMatch(s, ms, i) ==
    LET chapter_num == ParseInt(ms[i].digits)
        chapter_title == Strip(IF ms[i].title /= <<>> THEN ms[i].title
                               ELSE DefaultTitle(chapter_num))
        start_pos == ms[i].end
        end_pos == IF i + 1 <= Len(ms) THEN ms[i + 1].start ELSE Len(s)
    IN  Chapter(chapter_num, chapter_title, Strip(Slice(s, start_pos + 1, end_pos)))

\* prologue_text = text[:first_match.start()].strip()
PrologueText(s, ms) == Strip(Slice(s, 1, ms[1].start))

\* if prologue_text and len(prologue_text) > 100
\* (HasPrologueAtLeast: the same with >= in place of >)
HasPrologueAtLeast(s, ms) ==
    PrologueText(s, ms) /= <<>> /\ StrLen(PrologueText(s, ms)) >= PrologueMinLen
HasPrologue(s, ms) ==
    PrologueText(s, ms) /= <<>> /\ StrLen(PrologueText(s, ms)) > PrologueMinLen

----------------------------------------------------------------------------
(* chunking.py *)

RECURSIVE SplitParagraphs(_)
\* text.split('\n\n'): non-overlapping separators, left to right
SplitParagraphs(s) ==
    IF \E i \in 1..(Len(s) - 1) : s[i] = "NL" /\ s[i + 1] = "NL"
    THEN LET i == CHOOSE i \in 1..(Len(s) - 1) :
                    /\ s[i] = "NL" /\ s[i + 1] = "NL"
                    /\ \A j \in 1..(i - 1) : ~(s[j] = "NL" /\ s[j + 1] = "NL")
         IN  <<Slice(s, 1, i - 1)>> \o SplitParagraphs(Slice(s, i + 2, Len(s)))
    ELSE <<s>>

RECURSIVE JoinParagraphs(_)
\* '\n\n'.join(parts)
JoinParagraphs(parts) ==
    IF parts = <<>> THEN <<>>
    ELSE IF Len(parts) = 1 THEN parts[1]
    ELSE parts[1] \o <<"NL", "NL">> \o JoinParagraphs(Tail(parts))

\* the characters of the lookbehind class [.!?...] of split_by_sentences
SentenceEnd == {".", "!", "?"}

RECURSIVE ReSplitSentences(_)
\* re.split(r'(?<=[.!?...])\s+', s)
ReSplitSentences(s) ==
    IF \E i \in 2..Len(s) : s[i - 1] \in SentenceEnd /\ IsSpace(s[i])
    THEN LET i == CHOOSE i \in 2..Len(s) :
                    /\ s[i - 1] \in SentenceEnd /\ IsSpace(s[i])
                    /\ \A j \in 2..(i - 1) : ~(s[j - 1] \in SentenceEnd /\ IsSpace(s[j]))
             r == SpaceRun(s, i)
         IN  <<Slice(s, 1, i - 1)>> \o ReSplitSentences(Slice(s, i + r, Len(s)))
    ELSE <<s>>

RECURSIVE StripNonEmpty(_)
\* [s.strip() for s in parts if s.strip()]
StripNonEmpty(parts) ==
    IF parts = <<>> THEN <<>>
    ELSE IF Strip(Head(parts)) = <<>> THEN StripNonEmpty(Tail(parts))
    ELSE <<Strip(Head(parts))>> \o StripNonEmpty(Tail(parts))

split_by_sentences(s) == StripNonEmpty(ReSplitSentences(s))

\* the loop state of split_by_paragraphs
EmptyPack == [chunks |-> <<>>, current_chunk |-> <<>>, current_length |-> 0]

\* chunks.append('\n\n'.join(current_chunk)); current_chunk = []; current_length = 0
\* (FlushForget: the buffer emptied without the append)
FlushForget(st) == [chunks |-> st.chunks, current_chunk |-> <<>>, current_length |-> 0]
Flush(st) ==
    [chunks |-> Append(st.chunks, JoinParagraphs(st.current_chunk)),
     current_chunk |-> <<>>, current_length |-> 0]

\* one iteration of the sentence loop
\* (PackSentenceNoFlush: the same loop body with the flush left out)
PackSentenceNoFlush(st, sentence, max) ==
    [st EXCEPT !.current_chunk = Append(@, sentence),
               !.current_length = @ + StrLen(sentence) + 2]
PackSentence(st, sentence, max) ==
    LET st1 == IF st.current_length + StrLen(sentence) + 1 > max /\ st.current_chunk /= <<>>
               THEN Flush(st) ELSE st
    IN  [st1 EXCEPT !.current_chunk = Append(@, sentence),
                    !.current_length = @ + StrLen(sentence) + 2]

RECURSIVE PackSentences(_, _, _)
PackSentences(st, sentences, max) ==
    IF sentences = <<>> THEN st
    ELSE PackSentences(PackSentence(st, Head(sentences), max), Tail(sentences), max)

\* one iteration of the paragraph loop
PackParagraph(st, p, max) ==
    LET para == Strip(p)
        para_len == StrLen(para)
    IN  IF para = <<>> THEN st
        ELSE IF para_len > max
        THEN PackSentences(IF st.current_chunk /= <<>> THEN Flush(st) ELSE st,
                           split_by_sentences(para), max)
        ELSE LET st1 == IF st.current_length + para_len + 2 > max /\ st.current_chunk /= <<>>
                        THEN Flush(st) ELSE st
             IN  [st1 EXCEPT !.current_chunk = Append(@, para),
                             !.current_length = @ + para_len + 2]

RECURSIVE PackParagraphs(_, _, _)
PackParagraphs(st, paragraphs, max) ==
    IF paragraphs = <<>> THEN st
    ELSE PackParagraphs(PackParagraph(st, Head(paragraphs), max), Tail(paragraphs), max)

split_by_paragraphs(s, max) ==
    LET st == PackParagraphs(EmptyPack, SplitParagraphs(s), max)
    IN  IF st.current_chunk /= <<>> THEN Flush(st).chunks ELSE st.chunks

\* f"chap_{number:04d}_part_{i:03d}"
\* (ChunkIdShortPad: the same with widths 3 and 2)
ChunkIdShortPad(number, i) == <<"chap_">> \o ZeroPad(number, 3) \o <<"_part_">> \o ZeroPad(i, 2)
ChunkId(number, i) == <<"chap_">> \o ZeroPad(number, 4) \o <<"_part_">> \o ZeroPad(i, 3)

\* f"chap_{number:04d}_part_001"
ChunkIdSingle(number) == <<"chap_">> \o ZeroPad(number, 4) \o <<"_part_", "0", "0", "1">>

\* the Chunk objects one chapter contributes (body of the chapter loop)
\* (ChapterChunksFromZero: always split, parts enumerated from 0)
ChapterChunksFromZero(chapter, max) ==
    LET chapter_text == Strip(chapter.text)
        text_parts == split_by_paragraphs(chapter_text, max)
    IN  [i \in 1..Len(text_parts) |->
            [chapter_number |-> chapter.number, chapter_title |-> chapter.title,
             part_number |-> i - 1, total_parts |-> Len(text_parts),
             text |-> text_parts[i], chunk_id |-> ChunkId(chapter.number, i - 1)]]
ChapterChunks(chapter, max) ==
    LET chapter_text == Strip(chapter.text)
    IN  IF StrLen(chapter_text) <= max
        THEN <<[chapter_number |-> chapter.number, chapter_title |-> chapter.title,
                part_number |-> 1, total_parts |-> 1,
                text |-> chapter_text, chunk_id |-> ChunkIdSingle(chapter.number)]>>
        ELSE LET text_parts == split_by_paragraphs(chapter_text, max)
                 total_parts == Len(text_parts)
             IN  [i \in 1..total_parts |->
                    [chapter_number |-> chapter.number, chapter_title |-> chapter.title,
                     part_number |-> i, total_parts |-> total_parts,
                     text |-> text_parts[i], chunk_id |-> ChunkId(chapter.number, i)]]

\* the argument check of create_chunks
\* (InvalidMaxCharsNegativeOnly: the check written as max_chars < 0)
InvalidMaxCharsNegativeOnly(m) == m < 0
InvalidMaxChars(m) == m <= 0

----------------------------------------------------------------------------
(* Inputs of create_chunks *)

ChunkAlphabet == {"a", ".", "SP", "NL"}
ChapterNumbers == {0, 1, 12, 10000}
ShortTexts == {<<>>, <<"a">>, <<"a", "NL", "NL", "a">>, <<".", "NL", "a", "a">>}

\* one chapter with any text of at most MaxTextLen characters
LongChapterLists == {<<Chapter(1, <<"T">>, s)>> : s \in Str(ChunkAlphabet, MaxTextLen)}

\* up to MaxChapters chapters, numbers possibly repeated, short texts
ShortChapters == {Chapter(n, <<"T">>, s) : n \in ChapterNumbers, s \in ShortTexts}
ShortChapterLists == UNION {[1..k -> ShortChapters] : k \in 0..MaxChapters}

\* the state of preprocess_text when it is not the function under study
PreIdle ==
    /\ raw_text = <<>>
    /\ page_texts = <<>>
    /\ repeating_lines = {}
    /\ lines = <<>>
    /\ line_i = 0
    /\ processed_lines = <<>>
    /\ results = <<>>
    /\ join_current = <<>>
    /\ join_next = <<>>
    /\ join_result = FALSE

\* no parameters (no run started, nothing saved)
NoParams == [input_hash |-> "", mode |-> "", model |-> "", max_chars |-> 0, provider |-> ""]

\* what GeminiClient.generate has ended with: nothing yet
NoResult == [kind |-> "none", value |-> <<>>]

\* no run before this one, or one that an API error did not stop
NoRun == [exit |-> "none", params |-> NoParams, done |-> {}]

\* the arguments of a run and checkpoint.json when they are not under study
RunIdle ==
    /\ run_params = NoParams
    /\ overwrite = FALSE
    /\ checkpoint_status = "absent"
    /\ checkpoint_params = NoParams
    /\ prev_run = NoRun

\* the state of GeminiClient.generate when it is not the function under study
GenIdle ==
    /\ model_set = FALSE
    /\ max_retries = 0
    /\ retry_delay = 0
    /\ attempt = 0
    /\ model_calls = 0
    /\ sleeps = <<>>
    /\ last_error = <<>>
    /\ gen_result = NoResult

\* the state of main's processing loop before main has reached it
MainIdle ==
    /\ chunks_done = {}
    /\ checkpoint_file = {}
    /\ chunk_files = <<>>
    /\ li = 0
    /\ api_calls = <<>>
    /\ chunk_outputs = <<>>
    /\ runs = 0
    /\ RunIdle
    /\ GenIdle

ChunkInit ==
    /\ PreIdle
    /\ chapters \in LongChapterLists \cup ShortChapterLists
    /\ max_chars \in -1..MaxMaxChars
    /\ text = <<>>
    /\ matches = <<>>
    /\ mi = 0
    /\ all_chunks = <<>>
    /\ chunk_chapter_idx = <<>>
    /\ ci = 0
    /\ MainIdle
    /\ pc = "create_chunks"

----------------------------------------------------------------------------
(* create_chunks as a state machine: the argument check, then one step per *)
(* iteration of the chapter loop.  chunk_chapter_idx records, for each     *)
(* element of all_chunks, the index of the chapter whose iteration         *)
(* appended it.                                                            *)

\* raise ValueError(f"max_chars must be positive, got {max_chars}")
RaiseValueError ==
    /\ pc = "create_chunks"
    /\ InvalidMaxChars(max_chars)
    /\ pc' = "ValueError"
    /\ UNCHANGED <<preVars, splitVars, mainVars, chapters, max_chars, all_chunks, chunk_chapter_idx, ci>>

\* all_chunks = []
BeginChunking ==
    /\ pc = "create_chunks"
    /\ ~InvalidMaxChars(max_chars)
    /\ all_chunks' = <<>>
    /\ chunk_chapter_idx' = <<>>
    /\ ci' = 1
    /\ pc' = "chapter_loop"
    /\ UNCHANGED <<preVars, splitVars, mainVars, chapters, max_chars>>

\* one iteration of: for chapter in chapters
\* (ChunkChapterPrepend: the same with the new chunks put in front)
ChunkChapterPrepend ==
    /\ pc = "chapter_loop"
    /\ ci <= Len(chapters)
    /\ LET new == ChapterChunks(chapters[ci], max_chars)
       IN  /\ all_chunks' = new \o all_chunks
           /\ chunk_chapter_idx' = [i \in 1..Len(new) |-> ci] \o chunk_chapter_idx
    /\ ci' = ci + 1
    /\ UNCHANGED <<preVars, splitVars, mainVars, chapters, max_chars, pc>>
ChunkChapter ==
    /\ pc = "chapter_loop"
    /\ ci <= Len(chapters)
    /\ LET new == ChapterChunks(chapters[ci], max_chars)
       IN  /\ all_chunks' = all_chunks \o new
           /\ chunk_chapter_idx' = chunk_chapter_idx \o [i \in 1..Len(new) |-> ci]
    /\ ci' = ci + 1
    /\ UNCHANGED <<preVars, splitVars, mainVars, chapters, max_chars, pc>>

\* return all_chunks
ReturnChunks ==
    /\ pc = "chapter_loop"
    /\ ci > Len(chapters)
    /\ pc' = "chunks_returned"
    /\ UNCHANGED <<preVars, splitVars, mainVars, chapters, max_chars, all_chunks, chunk_chapter_idx, ci>>

ChunkNext == RaiseValueError \/ BeginChunking \/ ChunkChapter \/ ReturnChunks

SpecChunk == ChunkInit /\ [][ChunkNext]_vars

----------------------------------------------------------------------------
(* Properties of create_chunks, checked under SpecChunk *)

\* the chapter whose loop iteration produced all_chunks[j]
SourceChapter(j) == chapters[chunk_chapter_idx[j]]

\* s[a..b] contains a paragraph separator '\n\n'
HasParagraphBreak(s, a, b) == \E i \in a..(b - 1) : s[i] = "NL" /\ s[i + 1] = "NL"

\* t is not empty and holds no sentence boundary and no paragraph boundary
IsOneSentence(t) ==
    /\ t /= <<>>
    /\ ~HasParagraphBreak(t, 1, Len(t))
    /\ \A i \in 2..Len(t) : ~(t[i - 1] \in SentenceEnd /\ IsSpace(t[i]))

\* t stands in s at i..j, and both ends of it are ends of the text,
\* sentence boundaries or paragraph boundaries of s
IsUncutAt(t, s, i, j) ==
    LET a == CHOOSE a \in 1..i :
                /\ \A k \in a..(i - 1) : IsSpace(s[k])
                /\ (a = 1 \/ ~IsSpace(s[a - 1]))
        b == CHOOSE b \in j..Len(s) :
                /\ \A k \in (j + 1)..b : IsSpace(s[k])
                /\ (b = Len(s) \/ ~IsSpace(s[b + 1]))
    IN  /\ Slice(s, i, j) = t
        /\ a = 1 \/ (a < i /\ (s[a - 1] \in SentenceEnd \/ HasParagraphBreak(s, a, i - 1)))
        /\ b = Len(s) \/ (b > j /\ (s[j] \in SentenceEnd \/ HasParagraphBreak(s, j + 1, b)))

IsUncutSentenceOf(t, s) ==
    \E i \in 1..Len(s) : \E j \in i..Len(s) : IsUncutAt(t, s, i, j)

\* C1: every chunk has at most max_chars characters, unless it is exactly one
\* sentence that is itself longer than max_chars; such a sentence is alone in
\* its chunk and stands in the chapter text uncut.
C1_ChunkSizeBound ==
    \A j \in DOMAIN all_chunks :
        \/ StrLen(all_chunks[j].text) <= max_chars
        \/ /\ IsOneSentence(all_chunks[j].text)
           /\ IsUncutSentenceOf(all_chunks[j].text, SourceChapter(j).text)

\* an oversized sentence in a chunk of its own, between two other chunks
C1_Witness ==
    /\ pc = "chunks_returned"
    /\ Len(all_chunks) = 3
    /\ StrLen(all_chunks[2].text) > max_chars
    /\ StrLen(all_chunks[1].text) <= max_chars
    /\ StrLen(all_chunks[3].text) <= max_chars

\* the positions in all_chunks of the chunks of chapter k
ChunksOfChapter(k) == {j \in DOMAIN all_chunks : chunk_chapter_idx[j] = k}

\* C2: the chunks of a chapter that was turned into n chunks are numbered
\* 1, 2, ..., n in output order, and each of them has total_parts = n.
C2_PartNumbering ==
    \A k \in DOMAIN chapters :
        k < ci =>
            \A j \in ChunksOfChapter(k) :
                /\ all_chunks[j].part_number = Cardinality({i \in ChunksOfChapter(k) : i <= j})
                /\ all_chunks[j].total_parts = Cardinality(ChunksOfChapter(k))

\* a chapter split into three parts
C2_Witness ==
    /\ pc = "chunks_returned"
    /\ \E j \in DOMAIN all_chunks :
          all_chunks[j].part_number = 3 /\ all_chunks[j].total_parts = 3

\* C3: the chunk list is ordered by the position of the chapter in the input
\* list, then by part number: chunks of one chapter are contiguous and the
\* chunks of an earlier chapter come first.
C3_ChunkOrder ==
    /\ Len(chunk_chapter_idx) = Len(all_chunks)
    /\ \A j \in DOMAIN all_chunks :
          /\ chunk_chapter_idx[j] \in DOMAIN chapters
          /\ all_chunks[j].chapter_number = SourceChapter(j).number
          /\ all_chunks[j].chapter_title = SourceChapter(j).title
    /\ \A i, j \in DOMAIN all_chunks :
          i < j =>
            \/ chunk_chapter_idx[i] < chunk_chapter_idx[j]
            \/ /\ chunk_chapter_idx[i] = chunk_chapter_idx[j]
               /\ all_chunks[i].part_number < all_chunks[j].part_number

\* two chapters of two parts each, the first with the larger chapter number
C3_Witness ==
    /\ pc = "chunks_returned"
    /\ Len(chapters) = 2
    /\ chapters[1].number > chapters[2].number
    /\ Len(all_chunks) = 4
    /\ all_chunks[2].chapter_number = chapters[1].number
    /\ all_chunks[3].chapter_number = chapters[2].number

\* C4: with max_chars <= 0 create_chunks raises ValueError and does nothing
\* else: the chapter loop is never entered and no chunk is produced.
C4_InvalidMaxCharsRaises ==
    max_chars <= 0 =>
        /\ pc \in {"create_chunks", "ValueError"}
        /\ all_chunks = <<>>
        /\ pc = "create_chunks" => ENABLED RaiseValueError

\* ValueError for max_chars = 0 and a chapter list that is not empty
C4_Witness == pc = "ValueError" /\ max_chars = 0 /\ chapters /= <<>>

DigitValue(c) ==
    CASE c = "0" -> 0 [] c = "1" -> 1 [] c = "2" -> 2 [] c = "3" -> 3 [] c = "4" -> 4
      [] c = "5" -> 5 [] c = "6" -> 6 [] c = "7" -> 7 [] c = "8" -> 8 [] c = "9" -> 9

RECURSIVE DecimalValue(_)
DecimalValue(ds) ==
    IF ds = <<>> THEN 0
    ELSE 10 * DecimalValue(SubSeq(ds, 1, Len(ds) - 1)) + DigitValue(ds[Len(ds)])

\* ds is the decimal numeral of n, zero-padded on the left to w digits
IsZeroPadded(ds, n, w) ==
    /\ Len(ds) >= w
    /\ \A i \in DOMAIN ds : ds[i] \in {"0", "1", "2", "3", "4", "5", "6", "7", "8", "9"}
    /\ DecimalValue(ds) = n
    /\ Len(ds) > w => ds[1] /= "0"

IsChunkIdOf(id, number, part) ==
    \E p \in 3..(Len(id) - 1) :
        /\ id[1] = "chap_"
        /\ id[p] = "_part_"
        /\ IsZeroPadded(SubSeq(id, 2, p - 1), number, 4)
        /\ IsZeroPadded(SubSeq(id, p + 1, Len(id)), part, 3)

DistinctChapterNumbers ==
    \A i, j \in DOMAIN chapters : i /= j => chapters[i].number /= chapters[j].number

\* C5: each chunk_id is 'chap_' + the chapter number padded to 4 digits +
\* '_part_' + the part number padded to 3 digits; when the chapter numbers of
\* the input are pairwise distinct so are the chunk ids.
C5_ChunkIdFormat ==
    /\ \A j \in DOMAIN all_chunks :
          IsChunkIdOf(all_chunks[j].chunk_id, all_chunks[j].chapter_number,
                      all_chunks[j].part_number)
    /\ DistinctChapterNumbers =>
          \A i, j \in DOMAIN all_chunks :
              i /= j => all_chunks[i].chunk_id /= all_chunks[j].chunk_id

\* two chapters with distinct numbers, one of five digits, split into parts
C5_Witness ==
    /\ pc = "chunks_returned"
    /\ Len(chapters) = 2
    /\ DistinctChapterNumbers
    /\ Len(all_chunks) = 4
    /\ \E j \in DOMAIN all_chunks : all_chunks[j].chapter_number > 9999

\* the paragraphs of s as the packing loop sees them: trimmed, blank ones
\* left out
NonEmptyParagraphs(s) == StripNonEmpty(SplitParagraphs(s))

RECURSIVE GreedyPack(_, _, _)
\* packing as C25 words it: the buffer is flushed before a paragraph exactly
\* when it is non-empty and, joined with the paragraph by a blank line, would
\* be longer than max
GreedyPack(buffer, paragraphs, max) ==
    IF paragraphs = <<>>
    THEN IF buffer = <<>> THEN <<>> ELSE <<JoinParagraphs(buffer)>>
    ELSE IF buffer /= <<>> /\ StrLen(JoinParagraphs(Append(buffer, Head(paragraphs)))) > max
    THEN <<JoinParagraphs(buffer)>> \o GreedyPack(<<Head(paragraphs)>>, Tail(paragraphs), max)
    ELSE GreedyPack(Append(buffer, Head(paragraphs)), Tail(paragraphs), max)

\* the texts of the chunks of chapter k, in output order
ChunkTextsOfChapter(k) ==
    LET first == CHOOSE j \in ChunksOfChapter(k) : \A i \in ChunksOfChapter(k) : j <= i
    IN  [n \in 1..Cardinality(ChunksOfChapter(k)) |-> all_chunks[first + n - 1].text]

\* C25: for a chapter that is packed by paragraphs, none of them longer than
\* max_chars, the chunks are those of greedy packing that flushes the buffer
\* before a paragraph exactly when buffer, blank line and paragraph together
\* are longer than max_chars.
C25_FlushOnOverflowOnly ==
    pc = "chunks_returned" =>
        \A k \in DOMAIN chapters :
            LET t == Strip(chapters[k].text)
                ps == NonEmptyParagraphs(t)
            IN  (/\ StrLen(t) > max_chars
                 /\ \A i \in DOMAIN ps : StrLen(ps[i]) <= max_chars) =>
                    ChunkTextsOfChapter(k) = GreedyPack(<<>>, ps, max_chars)

----------------------------------------------------------------------------
(* Inputs of split_into_chapters *)

SplitAlphabet == {"CHUONG", "SP", "NL", "1", ":", "a", "X"}

\* the lines the longer documents are made of
SplitLines ==
    { <<>>,
      <<"SP">>,
      <<"a">>,
      <<":", "a">>,
      <<"X", "X">>,
      <<"X", "X", "a">>,
      <<"CHUONG", "SP", "1">>,
      <<"CHUONG", "SP", "0">>,
      <<"CHUONG", "SP", "0", "1", ":", "a">>,
      <<"CHUONG", "SP", "1", "1", ":", "SP", "a", "SP", "a", "SP">>,
      <<"SP", "CHUONG", "SP", "1", "SP", ":", "SP">>,
      <<"CHUONG", "SP", "1", "a">>,
      <<"a", "SP", "CHUONG", "SP", "1">> }

RECURSIVE JoinLines(_)
\* '\n'.join(lines)
JoinLines(ls) ==
    IF ls = <<>> THEN <<>>
    ELSE IF Len(ls) = 1 THEN ls[1]
    ELSE ls[1] \o <<"NL">> \o JoinLines(Tail(ls))

\* every text of at most MaxSplitLen characters, and every document of at
\* most MaxLines of the lines above
SplitTexts ==
    Str(SplitAlphabet, MaxSplitLen)
        \cup {JoinLines(ls) : ls \in UNION {[1..k -> SplitLines] : k \in 1..MaxLines}}

SplitInit ==
    /\ PreIdle
    /\ text \in SplitTexts
    /\ matches = <<>>
    /\ mi = 0
    /\ chapters = <<>>
    /\ max_chars = 0
    /\ all_chunks = <<>>
    /\ chunk_chapter_idx = <<>>
    /\ ci = 0
    /\ MainIdle
    /\ pc = "split_into_chapters"

chunkVars == <<max_chars, all_chunks, chunk_chapter_idx, ci, mainVars>>

----------------------------------------------------------------------------
(* split_into_chapters as a state machine *)

\* matches = list(CHAPTER_PATTERN.finditer(text))
FindHeadings ==
    /\ pc = "split_into_chapters"
    /\ matches' = FindAll(text, 0)
    /\ mi' = 1
    /\ chapters' = <<>>
    /\ pc' = "headings_found"
    /\ UNCHANGED <<preVars, text, chunkVars>>

\* if not matches: return [Chapter(1, "Toàn bộ nội dung", text.strip())]
ReturnWholeText ==
    /\ pc = "headings_found"
    /\ matches = <<>>
    /\ chapters' = <<WholeTextChapter(text)>>
    /\ pc' = "chapters_returned"
    /\ UNCHANGED <<preVars, text, matches, mi, chunkVars>>

\* one iteration of: for i, match in enumerate(matches)
\* (AppendChapterDedup: the same, skipping a heading whose number an earlier
\* chapter already carries)
AppendChapterDedup ==
    /\ pc = "headings_found"
    /\ matches /= <<>>
    /\ mi <= Len(matches)
    /\ LET new == ChapterOfMatch(text, matches, mi)
       IN  chapters' = IF \E k \in DOMAIN chapters : chapters[k].number = new.number
                       THEN chapters
                       ELSE Append(chapters, new)
    /\ mi' = mi + 1
    /\ UNCHANGED <<preVars, text, matches, pc, chunkVars>>
AppendChapter ==
    /\ pc = "headings_found"
    /\ matches /= <<>>
    /\ mi <= Len(matches)
    /\ chapters' = Append(chapters, ChapterOfMatch(text, matches, mi))
    /\ mi' = mi + 1
    /\ UNCHANGED <<preVars, text, matches, pc, chunkVars>>

\* chapters.insert(0, Chapter(0, "Mở đầu", prologue_text)); return chapters
InsertPrologue ==
    /\ pc = "headings_found"
    /\ matches /= <<>>
    /\ mi > Len(matches)
    /\ HasPrologue(text, matches)
    /\ chapters' = <<Chapter(0, TitlePrologue, PrologueText(text, matches))>> \o chapters
    /\ pc' = "chapters_returned"
    /\ UNCHANGED <<preVars, text, matches, mi, chunkVars>>

\* return chapters (no prologue inserted)
ReturnChapters ==
    /\ pc = "headings_found"
    /\ matches /= <<>>
    /\ mi > Len(matches)
    /\ ~HasPrologue(text, matches)
    /\ pc' = "chapters_returned"
    /\ UNCHANGED <<preVars, text, matches, mi, chapters, chunkVars>>

SplitNext ==
    FindHeadings \/ ReturnWholeText \/ AppendChapter \/ InsertPrologue \/ ReturnChapters

SpecSplit == SplitInit /\ [][SplitNext]_vars

----------------------------------------------------------------------------
(* Properties of split_into_chapters, checked under SpecSplit *)

\* t is s without its leading and trailing whitespace
IsTrimOf(t, s) ==
    IF \A k \in DOMAIN s : IsSpace(s[k]) THEN t = <<>>
    ELSE \E i \in DOMAIN s : \E j \in i..Len(s) :
            /\ ~IsSpace(s[i])
            /\ ~IsSpace(s[j])
            /\ \A k \in 1..(i - 1) : IsSpace(s[k])
            /\ \A k \in (j + 1)..Len(s) : IsSpace(s[k])
            /\ t = SubSeq(s, i, j)

\* C7: with no heading match the result is the single chapter number 1,
\* titled "Toàn bộ nội dung", whose text is the trimmed input; the call
\* does not fail.
C7_NoHeadingFallback ==
    /\ (pc = "headings_found" /\ matches = <<>>) => ENABLED ReturnWholeText
    /\ (pc = "chapters_returned" /\ matches = <<>>) =>
          /\ Len(chapters) = 1
          /\ chapters[1].number = 1
          /\ chapters[1].title = TitleWholeText
          /\ IsTrimOf(chapters[1].text, text)

\* a text that names the word but has no heading, with whitespace to trim
C7_Witness ==
    /\ pc = "chapters_returned"
    /\ matches = <<>>
    /\ \E k \in DOMAIN text : text[k] = "CHUONG"
    /\ Len(chapters) = 1
    /\ chapters[1].text /= <<>>
    /\ chapters[1].text /= text

\* the text before the first heading match
TextBeforeFirstHeading == Slice(text, 1, matches[1].start)

C9_PrologueDetected ==
    (pc = "chapters_returned" /\ matches /= <<>> /\ Strip(TextBeforeFirstHeading) /= <<>>) =>
        /\ Len(chapters) = Len(matches) + 1
        /\ chapters[1].number = 0
        /\ chapters[1].title = TitlePrologue
        /\ IsTrimOf(chapters[1].text, TextBeforeFirstHeading)

\* the span from the end of heading match i to the start of the next one
SpanAfterHeading(i) ==
    Slice(text, matches[i].end + 1,
          IF i < Len(matches) THEN matches[i + 1].start ELSE Len(text))

\* the title the claim names for heading match i, before any trimming
NamedTitle(i, number) ==
    IF matches[i].title /= <<>> THEN matches[i].title ELSE DefaultTitle(number)

\* n is the integer value of the digit string ds
IsValueOf(n, ds) == n >= 0 /\ Len(Digits(n)) <= Len(ds) /\ ZeroPad(n, Len(ds)) = ds

\* C10 as stated: one chapter per heading match in document order, after the
\* optional chapter 0; number = value of the digits, title = captured title
\* or "Chương {number}", text = the span up to the next heading match.
C10_ChapterPerHeadingRaw ==
    (pc = "chapters_returned" /\ matches /= <<>>) =>
        LET off == Len(chapters) - Len(matches)
        IN  /\ off \in {0, 1}
            /\ \A i \in DOMAIN matches :
                  /\ IsValueOf(chapters[off + i].number, matches[i].digits)
                  /\ chapters[off + i].title = NamedTitle(i, chapters[off + i].number)
                  /\ chapters[off + i].text = SpanAfterHeading(i)

\* C10 amended: the same with title and text trimmed of leading and trailing
\* whitespace.
C10_ChapterPerHeadingTrimmed ==
    (pc = "chapters_returned" /\ matches /= <<>>) =>
        LET off == Len(chapters) - Len(matches)
        IN  /\ off \in {0, 1}
            /\ \A i \in DOMAIN matches :
                  /\ IsValueOf(chapters[off + i].number, matches[i].digits)
                  /\ IsTrimOf(chapters[off + i].title,
                              NamedTitle(i, chapters[off + i].number))
                  /\ IsTrimOf(chapters[off + i].text, SpanAfterHeading(i))

\* two headings, the first bare and followed by text, the second with a
\* number written with a leading zero and a captured title
C10_Witness ==
    /\ pc = "chapters_returned"
    /\ Len(matches) = 2
    /\ Len(chapters) = 2
    /\ matches[1].title = <<>>
    /\ chapters[1].text /= <<>>
    /\ matches[2].title /= <<>>
    /\ matches[2].digits /= Digits(chapters[2].number)

RECURSIVE NoSpace(_)
\* s with every whitespace character removed
NoSpace(s) ==
    IF s = <<>> THEN <<>>
    ELSE IF IsSpace(Head(s)) THEN NoSpace(Tail(s))
    ELSE <<Head(s)>> \o NoSpace(Tail(s))

RECURSIVE ConcatTexts(_)
\* the texts of a chapter list, one after the other
ConcatTexts(chs) ==
    IF chs = <<>> THEN <<>> ELSE Head(chs).text \o ConcatTexts(Tail(chs))

RECURSIVE TextOutsideHeadings(_, _)
\* the text from offset pos on, without the text of heading matches i, i+1, ...
TextOutsideHeadings(pos, i) ==
    IF i > Len(matches) THEN Slice(text, pos + 1, Len(text))
    ELSE Slice(text, pos + 1, matches[i].start) \o TextOutsideHeadings(matches[i].end, i + 1)

\* C11: the chapter texts, concatenated in order, are the input document
\* without the text matched by the headings; nothing before the first
\* heading, between headings or after the last heading is dropped
\* (whitespace is left out of the comparison).
C11_SegmentationRoundTrip ==
    pc = "chapters_returned" =>
        NoSpace(ConcatTexts(chapters)) = NoSpace(TextOutsideHeadings(0, 1))

RECURSIVE SplitNL(_)
\* s.split('\n')
SplitNL(s) ==
    IF \E i \in DOMAIN s : s[i] = "NL"
    THEN LET i == CHOOSE i \in DOMAIN s : s[i] = "NL" /\ \A j \in 1..(i - 1) : s[j] /= "NL"
         IN  <<Slice(s, 1, i - 1)>> \o SplitNL(Slice(s, i + 1, Len(s)))
    ELSE <<s>>

\* the heading grammar for one line l (a string without '\n'): optional
\* whitespace, the word, one or more spaces, 1 to 5 digits, then optional
\* whitespace up to the end of the line, or optional whitespace, one
\* separator and at least one more character
IsHeadingLine(l) ==
    \E a \in 0..Len(l) : \E b \in 1..Len(l) : \E nd \in 1..5 :
        /\ a + 1 + b + nd <= Len(l)
        /\ \A i \in 1..a : l[i] = "SP"
        /\ l[a + 1] \in ChuongWords
        /\ \A i \in (a + 2)..(a + 1 + b) : l[i] = "SP"
        /\ \A i \in (a + 2 + b)..(a + 1 + b + nd) : IsDigit(l[i])
        /\ LET r == Slice(l, a + 2 + b + nd, Len(l))
           IN  \/ \A i \in DOMAIN r : r[i] = "SP"
               \/ \E c \in 0..(Len(r) - 2) :
                    /\ \A i \in 1..c : r[i] = "SP"
                    /\ IsSeparator(r[c + 1])

\* the number of the line of text that holds offset p (lines count from 1)
LineOfOffset(p) == 1 + Cardinality({i \in 1..p : text[i] = "NL"})

\* the offset of the word 'chương' of heading match i
WordOffset(i) == matches[i].start + SpaceRun(text, matches[i].start + 1)

\* line k of the text starts a chapter: the word of some heading match is on it
StartsChapter(k) == \E i \in DOMAIN matches : LineOfOffset(WordOffset(i)) = k

\* C12: a line of the document starts a chapter if and only if the line
\* matches the heading grammar.
C12_HeadingGrammar ==
    pc = "chapters_returned" =>
        \A k \in DOMAIN SplitNL(text) : StartsChapter(k) <=> IsHeadingLine(SplitNL(text)[k])

\* the indices of the chapters numbered 0
ZeroChapters == {k \in DOMAIN chapters : chapters[k].number = 0}

\* C21: at most one returned chapter has number 0, and a chapter with
\* number 0 is the first element, titled "Mở đầu" and holding the trimmed
\* text that precedes the first heading.
C21_ZeroIsPrologue ==
    pc = "chapters_returned" =>
        /\ Cardinality(ZeroChapters) <= 1
        /\ \A k \in ZeroChapters :
              /\ k = 1
              /\ chapters[k].title = TitlePrologue
              /\ matches /= <<>>
              /\ IsTrimOf(chapters[k].text, TextBeforeFirstHeading)

\* the text of heading match i from the word 'chương' to the last character
\* that is not whitespace
HeadingCore(i) == RStrip(Slice(text, WordOffset(i) + 1, matches[i].end))

\* the line of the text on which the word of heading match i stands
HeadingLine(i) == SplitNL(text)[LineOfOffset(WordOffset(i))]

\* l is a bare heading line: the word, spaces and digits, nothing else but
\* whitespace
IsBareHeadingLine(l) ==
    LET s == Strip(l)
    IN  /\ Len(s) >= 3
        /\ s[1] \in ChuongWords
        /\ \E b \in 1..(Len(s) - 2) :
              /\ \A k \in 2..(b + 1) : s[k] = "SP"
              /\ \A k \in (b + 2)..Len(s) : IsDigit(s[k])

\* C23: a heading match does not reach over a line end: word, digits,
\* separator and captured title are on one line; so the heading of a bare
\* 'Chương N' line has no captured title (its chapter is titled 'Chương N'),
\* whatever the following lines begin with.
C23_HeadingWithinLine ==
    pc = "chapters_returned" =>
        \A i \in DOMAIN matches :
            /\ \A k \in DOMAIN HeadingCore(i) : HeadingCore(i)[k] /= "NL"
            /\ IsBareHeadingLine(HeadingLine(i)) =>
                  /\ matches[i].title = <<>>
                  /\ chapters[Len(chapters) - Len(matches) + i].title
                        = DefaultTitle(chapters[Len(chapters) - Len(matches) + i].number)

----------------------------------------------------------------------------
(* main.py: the chunk processing loop, with checkpoint.py and exporters.py *)

RECURSIVE create_chunks(_, _)
\* create_chunks(chapters, max_chars) for max_chars > 0
create_chunks(chs, max) ==
    IF chs = <<>> THEN <<>>
    ELSE ChapterChunks(Head(chs), max) \o create_chunks(Tail(chs), max)

\* chunking.get_chunk_context
get_chunk_context(chunk) ==
    IF chunk.total_parts = 1
    THEN <<chunk.chapter_number, chunk.chapter_title>>
    ELSE <<chunk.chapter_number, chunk.chapter_title, chunk.part_number, chunk.total_parts>>

\* prompts.build_user_prompt, style and glossary fixed for the run
build_user_prompt(chunk) == [context |-> get_chunk_context(chunk), text |-> chunk.text]

\* the text client.generate returns for a prompt (the external transformer)
Generate(prompt) == [polished |-> prompt]

\* CheckpointManager.is_chunk_done
is_chunk_done(chunk_id) == chunk_id \in chunks_done /\ chunk_id \in DOMAIN chunk_files

\* the chunk files after open(chunk_file, 'w').write(output_text)
WriteChunkFile(files, chunk_id, output_text) ==
    [id \in (DOMAIN files) \cup {chunk_id} |->
        IF id = chunk_id THEN output_text ELSE files[id]]

\* exporters.collect_chunk_outputs
collect_chunk_outputs(chunks, files) ==
    [id \in {chunks[j].chunk_id : j \in DOMAIN chunks} |->
        IF id \in DOMAIN files THEN files[id]
        ELSE LET last == CHOOSE j \in DOMAIN chunks :
                            /\ chunks[j].chunk_id = id
                            /\ \A k \in DOMAIN chunks : chunks[k].chunk_id = id => k <= j
             IN  chunks[last].text]

RECURSIVE ChunkChapterIndices(_, _, _)
\* for each chunk of create_chunks(chs, max), the index of its chapter,
\* counted from k
ChunkChapterIndices(chs, max, k) ==
    IF chs = <<>> THEN <<>>
    ELSE [i \in 1..Len(ChapterChunks(Head(chs), max)) |-> k]
            \o ChunkChapterIndices(Tail(chs), max, k + 1)

\* main has split the text and made the chunks; the output directory is new:
\* CheckpointManager.initialize creates an empty checkpoint
MainInit ==
    /\ PreIdle
    /\ chapters \in ShortChapterLists
    /\ max_chars \in 1..MaxMaxChars
    /\ all_chunks = create_chunks(chapters, max_chars)
    /\ chunk_chapter_idx = ChunkChapterIndices(chapters, max_chars, 1)
    /\ ci = Len(chapters) + 1
    /\ text = <<>>
    /\ matches = <<>>
    /\ mi = 0
    /\ chunks_done = {}
    /\ checkpoint_file = {}
    /\ chunk_files = <<>>
    /\ li = 1
    /\ api_calls = <<>>
    /\ chunk_outputs = <<>>
    /\ runs = 1
    /\ RunIdle
    /\ GenIdle
    /\ pc = "process_chunks"

pipelineVars == <<text, matches, mi, chapters, max_chars, all_chunks, chunk_chapter_idx, ci>>

\* if checkpoint.is_chunk_done(chunk.chunk_id): ...; continue
SkipDoneChunk ==
    /\ pc = "process_chunks"
    /\ li <= Len(all_chunks)
    /\ is_chunk_done(all_chunks[li].chunk_id)
    /\ li' = li + 1
    /\ UNCHANGED <<preVars, pipelineVars, runVars, genVars, chunks_done, checkpoint_file, chunk_files, api_calls,
                   chunk_outputs, runs, pc>>

\* output_text = client.generate(user_prompt);
\* checkpoint.mark_chunk_done(chunk.chunk_id, output_text)
ProcessChunk ==
    /\ pc = "process_chunks"
    /\ li <= Len(all_chunks)
    /\ ~is_chunk_done(all_chunks[li].chunk_id)
    /\ LET chunk == all_chunks[li]
           output_text == Generate(build_user_prompt(chunk))
       IN  /\ chunk_files' = WriteChunkFile(chunk_files, chunk.chunk_id, output_text)
           /\ chunks_done' = chunks_done \cup {chunk.chunk_id}
           /\ checkpoint_file' = chunks_done \cup {chunk.chunk_id}
    /\ api_calls' = Append(api_calls, li)
    /\ li' = li + 1
    /\ UNCHANGED <<preVars, pipelineVars, runVars, genVars, chunk_outputs, runs, pc>>

\* client.generate raises GeminiClientError: log_error(2, ...); sys.exit(2)
ApiError ==
    /\ pc = "process_chunks"
    /\ li <= Len(all_chunks)
    /\ ~is_chunk_done(all_chunks[li].chunk_id)
    /\ api_calls' = Append(api_calls, li)
    /\ pc' = "exit_2"
    /\ UNCHANGED <<preVars, pipelineVars, runVars, genVars, chunks_done, checkpoint_file, chunk_files, li,
                   chunk_outputs, runs>>

\* KeyboardInterrupt during the loop: sys.exit(130)
Interrupt ==
    /\ pc = "process_chunks"
    /\ li <= Len(all_chunks)
    /\ pc' = "exit_130"
    /\ UNCHANGED <<preVars, pipelineVars, runVars, genVars, mainVars>>

\* chunk_outputs = collect_chunk_outputs(chunks, chunks_dir) and the export
Export ==
    /\ pc = "process_chunks"
    /\ li > Len(all_chunks)
    /\ chunk_outputs' = collect_chunk_outputs(all_chunks, chunk_files)
    /\ pc' = "done"
    /\ UNCHANGED <<preVars, pipelineVars, runVars, genVars, chunks_done, checkpoint_file, chunk_files, li, api_calls,
                   runs>>

\* main is started again on the same input with the same parameters:
\* CheckpointManager.initialize loads checkpoint.json and resumes
Rerun ==
    /\ pc \in {"exit_2", "exit_130"}
    /\ runs < MaxRuns
    /\ runs' = runs + 1
    /\ chunks_done' = checkpoint_file
    /\ li' = 1
    /\ pc' = "process_chunks"
    /\ UNCHANGED <<preVars, pipelineVars, runVars, genVars, checkpoint_file, chunk_files, api_calls, chunk_outputs>>

MainNext == SkipDoneChunk \/ ProcessChunk \/ ApiError \/ Interrupt \/ Export \/ Rerun

SpecMain == MainInit /\ [][MainNext]_vars

----------------------------------------------------------------------------
(* Properties of the processing loop, checked under SpecMain *)

\* C6: after a run that completes, the output kept under each chunk's id is
\* the transformer's result for that chunk, and every chunk was given to the
\* transformer: none is skipped because of another chunk's output.
C6_OutputPerChunk ==
    pc = "done" =>
        \A j \in DOMAIN all_chunks :
            /\ all_chunks[j].chunk_id \in DOMAIN chunk_outputs
            /\ chunk_outputs[all_chunks[j].chunk_id]
                  = Generate(build_user_prompt(all_chunks[j]))
            /\ \E k \in DOMAIN api_calls : api_calls[k] = j

----------------------------------------------------------------------------
(* preprocess.py *)

\* SENTENCE_ENDINGS
IsSentenceEnding(c) == c \in {".", "!", "?", ":", ";"}

\* LINE_START_BLOCK
IsLineStartBlock(c) == c \in {"-", "EM", "BULLET"}

\* str.isupper() of the first character of c
IsUpper(c) == c \in {"A", "Chuong", "CHUONG", "Page"}

RECURSIVE normalize_newlines(_)
\* text.replace('\r\n', '\n').replace('\r', '\n')
normalize_newlines(s) ==
    IF s = <<>> THEN <<>>
    ELSE IF Head(s) = "CR" /\ Len(s) >= 2 /\ s[2] = "NL" THEN normalize_newlines(Tail(s))
    ELSE IF Head(s) = "CR" THEN <<"NL">> \o normalize_newlines(Tail(s))
    ELSE <<Head(s)>> \o normalize_newlines(Tail(s))

\* $ without re.MULTILINE: the end of the string, or just before a final '\n'
AtStringEnd(s, p) == p = Len(s) \/ (p = Len(s) - 1 /\ s[Len(s)] = "NL")

\* the class [-—–] of the page-number patterns
IsDash(c) == c \in {"-", "EM"}

\* the three patterns of is_page_number_line, each re.match-ed on the
\* stripped line
is_page_number_line(line) ==
    LET s == Strip(line)
        \* ^\s*\d+\s*$
        n1 == DigitRun(s, 1)
        \* ^\s*[-—–]\s*\d+\s*[-—–]\s*$
        d2 == 1 + SpaceRun(s, 2)
        n2 == DigitRun(s, d2 + 1)
        g2 == d2 + n2 + SpaceRun(s, d2 + n2 + 1)
        \* ^\s*(Page|Trang|p\.?)\s*\d+\s*$
        d3 == 1 + SpaceRun(s, 2)
        n3 == DigitRun(s, d3 + 1)
    IN  \/ n1 >= 1 /\ AtStringEnd(s, n1 + SpaceRun(s, n1 + 1))
        \/ /\ s /= <<>>
           /\ IsDash(s[1])
           /\ n2 >= 1
           /\ g2 < Len(s)
           /\ IsDash(s[g2 + 1])
           /\ AtStringEnd(s, g2 + 1 + SpaceRun(s, g2 + 2))
        \/ /\ s /= <<>>
           /\ s[1] = "Page"
           /\ n3 >= 1
           /\ AtStringEnd(s, d3 + n3 + SpaceRun(s, d3 + n3 + 1))

\* re.match(r'^\s*chương\s+\d{1,5}\s*(?:[:：.\-–—]|$)', stripped, re.IGNORECASE)
is_chapter_heading(line) ==
    LET s == Strip(line)
        w1 == SpaceRun(s, 2)
        d0 == 1 + w1
        nd == DigitRun(s, d0 + 1)
        g == d0 + nd + SpaceRun(s, d0 + nd + 1)
    IN  /\ s /= <<>>
        /\ s[1] \in ChuongWords
        /\ w1 >= 1
        /\ nd >= 1
        /\ nd <= 5
        /\ \/ g < Len(s) /\ IsSeparator(s[g + 1])
           \/ \E j \in 0..SpaceRun(s, d0 + nd + 1) : AtStringEnd(s, d0 + nd + j)

\* (should_join_lines_no_heading_test: the same without the chapter heading test)
should_join_lines_no_heading_test(current_line, next_line) ==
    LET current == RStrip(current_line)
        next_stripped == Strip(next_line)
    IN  IF current = <<>> \/ next_stripped = <<>> THEN FALSE
        ELSE IF IsSentenceEnding(current[Len(current)]) THEN FALSE
        ELSE IF IsLineStartBlock(next_stripped[1]) THEN FALSE
        ELSE IF IsUpper(next_stripped[1]) /\ ~IsDigit(next_stripped[1]) THEN FALSE
        ELSE TRUE
should_join_lines(current_line, next_line) ==
    LET current == RStrip(current_line)
        next_stripped == Strip(next_line)
    IN  IF current = <<>> \/ next_stripped = <<>> THEN FALSE
        ELSE IF is_chapter_heading(current) \/ is_chapter_heading(next_stripped) THEN FALSE
        ELSE IF IsSentenceEnding(current[Len(current)]) THEN FALSE
        ELSE IF IsLineStartBlock(next_stripped[1]) THEN FALSE
        ELSE IF IsUpper(next_stripped[1]) /\ ~IsDigit(next_stripped[1]) THEN FALSE
        ELSE TRUE

\* find_repeating_headers_footers(page_texts, threshold = 0.3).  The list
\* page_texts is held as runs of equal pages: [page |-> the text of a page,
\* count |-> how many consecutive pages have that text].

ThresholdNum == 3
ThresholdDen == 10
MinLineLen == 3
MaxLineLen == 40
SampleOver == 200
SampleEdge == 50
SampleMiddle == 100

RECURSIVE SumSeq(_)
SumSeq(ns) == IF ns = <<>> THEN 0 ELSE Head(ns) + SumSeq(Tail(ns))

\* len(page_texts)
TotalPages(pages) == SumSeq([r \in DOMAIN pages |-> pages[r].count])

\* the number of indices that the ranges a..b-1 and c..d-1 share
Overlap(a, b, c, d) ==
    LET lo == IF a > c THEN a ELSE c
        hi == IF b < d THEN b ELSE d
    IN  IF hi > lo THEN hi - lo ELSE 0

\* index of the first page of run r, counted from 0
RunStart(pages, r) == SumSeq([q \in 1..(r - 1) |-> pages[q].count])

\* for each run, how many of its pages are in range(a, b)
PagesInRange(pages, a, b) ==
    [r \in DOMAIN pages |->
        Overlap(RunStart(pages, r), RunStart(pages, r) + pages[r].count, a, b)]

RECURSIVE Draws(_, _)
\* random.sample(middle_range, need): for each run, how many of its pages
\* the sample holds; every way of drawing need pages is an outcome
Draws(mids, need) ==
    IF mids = <<>> THEN (IF need = 0 THEN {<<>>} ELSE {})
    ELSE UNION {{<<k>> \o rest : rest \in Draws(Tail(mids), need - k)} :
                    k \in 0..(IF Head(mids) < need THEN Head(mids) ELSE need)}

\* the possible contents of sampled_pages: for each run, how many of its
\* pages are sampled
SampledPages(pages) ==
    LET total_pages == TotalPages(pages)
        head == PagesInRange(pages, 0, SampleEdge)
        tail == PagesInRange(pages, total_pages - SampleEdge, total_pages)
        middle_range == PagesInRange(pages, SampleEdge, total_pages - SampleEdge)
    IN  IF total_pages > SampleOver
        THEN {[r \in DOMAIN pages |-> head[r] + tail[r] + k[r]] :
                k \in IF SumSeq(middle_range) > SampleMiddle
                      THEN Draws(middle_range, SampleMiddle)
                      ELSE {middle_range}}
        ELSE {[r \in DOMAIN pages |-> pages[r].count]}

\* the lines one page adds to line_counts (seen_on_page at the end of the page)
CountedLines(page) ==
    LET page_lines == SplitNL(page)
        stripped == [j \in DOMAIN page_lines |-> Strip(page_lines[j])]
    IN  {stripped[j] : j \in {j \in DOMAIN page_lines :
            MinLineLen <= StrLen(stripped[j]) /\ StrLen(stripped[j]) <= MaxLineLen}}

\* line_counts[line] after the counting loop over the sampled pages;
\* counted[r] is CountedLines of the pages of run r
LineCount(counted, sampled, line) ==
    SumSeq([r \in DOMAIN counted |-> IF line \in counted[r] THEN sampled[r] ELSE 0])

\* int(effective_total * threshold)
MinCount(effective_total) == (effective_total * ThresholdNum) \div ThresholdDen

\* the set returned for one content of sampled_pages
RepeatingOf(counted, sampled) ==
    {line \in UNION {counted[r] : r \in {r \in DOMAIN counted : sampled[r] > 0}} :
        LineCount(counted, sampled, line) >= MinCount(SumSeq(sampled))}

\* the sets find_repeating_headers_footers can return
find_repeating_headers_footers(pages) ==
    LET counted == [r \in DOMAIN pages |-> CountedLines(pages[r].page)]
    IN  IF TotalPages(pages) < 3 THEN {{}}
        ELSE {RepeatingOf(counted, sampled) : sampled \in SampledPages(pages)}

\* normalize_chapter_title: re.sub of
\* (Chương|CHƯƠNG|chương)\s+(\d{1,5})\s*[:：\-–]\s*(.+?)(?=\n|$)  (re.MULTILINE)
\* by f"{chap_word} {number}: {title.strip()}"

\* the separator class [:：\-–]
IsNormSeparator(c) == c \in {":", "-"}

\* the pattern matched at offset p: where the match ends and what replaces it
\* (NormMatchAtKeepSeparator: the same with the separator of the input kept)
NormMatchAtKeepSeparator(s, p) ==
    LET w1 == SpaceRun(s, p + 2)
        d0 == p + 1 + w1
        nd == DigitRun(s, d0 + 1)
        d == d0 + nd
        g == d + SpaceRun(s, d + 1)
        q == g + 1
        ws == {w \in 0..SpaceRun(s, q + 1) : DotRun(s, q + w + 1) >= 1}
        w == CHOOSE w \in ws : \A v \in ws : v <= w
        t == DotRun(s, q + w + 1)
    IN  IF /\ p < Len(s)
           /\ s[p + 1] \in {"Chuong", "CHUONG", "chuong"}
           /\ w1 >= 1
           /\ nd >= 1
           /\ nd <= 5
           /\ g < Len(s)
           /\ IsNormSeparator(s[g + 1])
           /\ ws /= {}
        THEN [ok |-> TRUE, end |-> q + w + t,
              repl |-> <<s[p + 1], "SP">> \o Slice(s, d0 + 1, d) \o <<s[g + 1], "SP">>
                        \o Strip(Slice(s, q + w + 1, q + w + t))]
        ELSE NoMatch
NormMatchAt(s, p) ==
    LET w1 == SpaceRun(s, p + 2)                 \* \s+
        d0 == p + 1 + w1
        nd == DigitRun(s, d0 + 1)                \* (\d{1,5})
        d == d0 + nd
        g == d + SpaceRun(s, d + 1)              \* offset of the separator
        q == g + 1
        \* \s* takes the most whitespace that leaves (.+?) a character
        ws == {w \in 0..SpaceRun(s, q + 1) : DotRun(s, q + w + 1) >= 1}
        w == CHOOSE w \in ws : \A v \in ws : v <= w
        t == DotRun(s, q + w + 1)                \* (.+?) up to the end of the line
    IN  IF /\ p < Len(s)
           /\ s[p + 1] \in {"Chuong", "CHUONG", "chuong"}
           /\ w1 >= 1
           /\ nd >= 1
           /\ nd <= 5
           /\ g < Len(s)
           /\ IsNormSeparator(s[g + 1])
           /\ ws /= {}
        THEN [ok |-> TRUE, end |-> q + w + t,
              repl |-> <<s[p + 1], "SP">> \o Slice(s, d0 + 1, d) \o <<":", "SP">>
                        \o Strip(Slice(s, q + w + 1, q + w + t))]
        ELSE NoMatch

RECURSIVE NormalizeFrom(_, _)
\* re.sub from offset pos on: leftmost match first, then on from its end
NormalizeFrom(s, pos) ==
    IF \E p \in pos..Len(s) : NormMatchAt(s, p).ok
    THEN LET p == CHOOSE p \in pos..Len(s) :
                    /\ NormMatchAt(s, p).ok
                    /\ \A q \in pos..(p - 1) : ~NormMatchAt(s, q).ok
             m == NormMatchAt(s, p)
         IN  Slice(s, pos + 1, p) \o m.repl \o NormalizeFrom(s, m.end)
    ELSE Slice(s, pos + 1, Len(s))

normalize_chapter_title(s) == NormalizeFrom(s, 0)

\* length of the run of '\n' that starts at index i of s
RECURSIVE NewlineRun(_, _)
NewlineRun(s, i) == IF i <= Len(s) /\ s[i] = "NL" THEN 1 + NewlineRun(s, i + 1) ELSE 0

RECURSIVE CollapseNewlines(_)
\* re.sub(r'\n{3,}', '\n\n', s)
CollapseNewlines(s) ==
    IF s = <<>> THEN <<>>
    ELSE IF NewlineRun(s, 1) >= 3
    THEN <<"NL", "NL">> \o CollapseNewlines(Slice(s, NewlineRun(s, 1) + 1, Len(s)))
    ELSE <<Head(s)>> \o CollapseNewlines(Tail(s))

----------------------------------------------------------------------------
(* Inputs of preprocess_text *)

\* the lines the raw texts are made of
PreLines ==
    { <<>>,
      <<"a", "a", "a">>,
      <<"SP", "a", "a", "a", "CR">>,
      <<"1", "a", "a">>,
      <<"A", "a", "a", ".">>,
      <<"-", "SP", "A", "a", ".">>,
      <<"1", "2">>,
      <<"Page", "SP", "1">>,
      <<"Chuong", "SP", "1">>,
      <<"Chuong", "SP", "1", ":">>,
      <<"Chuong", "SP", "1", ":", "SP", "A">>,
      <<"CHUONG", "SP", "2", "SP", "-", "SP", "A", "a">>,
      <<"chuong", "SP", "3", "EM", "A">>,
      <<"a", "SP", "chuong", "SP", "1", ":", "a">> }

\* a sentence with a page number, a blank line or nothing between its halves
InterruptedTexts ==
    {JoinLines(<<<<"a", "a", "a">>, m, b>>) :
        m \in {<<"1", "2">>, <<"Page", "SP", "1">>, <<>>},
        b \in {<<"a", "a", "a">>, <<"A", "a", "a", ".">>}}

\* every raw text of at most MaxPreLines of the lines above, and the
\* interrupted sentences
RawTexts ==
    {JoinLines(ls) : ls \in UNION {[1..k -> PreLines] : k \in 0..MaxPreLines}}
        \cup InterruptedTexts

\* a page that has none of the lines of the raw texts
FillerPage == <<"X", "X">>

\* the pages that carry one of the lines of the raw texts above their body
HeaderPages ==
    { <<"a", "a", "a", "NL", "X", "X">>,
      <<"SP", "a", "a", "a", "NL", "a", "a", "a", "SP", "NL", "X", "X">>,
      <<"Chuong", "SP", "1", ":", "SP", "A", "NL", "X", "X">> }

HasPages(run) == run.count > 0

\* n pages, k consecutive ones of them equal to page h, after lead filler pages
PageList(h, n, k, lead) ==
    SelectSeq(<<[page |-> FillerPage, count |-> lead],
                [page |-> h, count |-> k],
                [page |-> FillerPage, count |-> n - k - lead]>>, HasPages)

\* <<number of pages, pages with the header, filler pages before them>>
PageShapes == { <<2, 2, 0>>, <<3, 1, 1>>, <<4, 1, 0>>, <<7, 1, 3>>, <<7, 2, 5>>, <<10, 3, 7>> }

\* no page texts, or a list of at most SampleOver pages
PageLists ==
    {<<>>} \cup {PageList(h, sh[1], sh[2], sh[3]) : h \in HeaderPages, sh \in PageShapes}

\* lists of more than SampleOver pages, the header on pages of the middle
LongPageLists == {PageList(h, 300, 120, 50) : h \in HeaderPages}

PreInit ==
    /\ \/ raw_text \in RawTexts /\ page_texts \in PageLists
       \/ raw_text \in PreLines /\ page_texts \in LongPageLists
    /\ repeating_lines = {}
    /\ lines = <<>>
    /\ line_i = 0
    /\ processed_lines = <<>>
    /\ results = <<>>
    /\ join_current = <<>>
    /\ join_next = <<>>
    /\ join_result = FALSE
    /\ text = <<>>
    /\ matches = <<>>
    /\ mi = 0
    /\ chapters = <<>>
    /\ max_chars = 0
    /\ all_chunks = <<>>
    /\ chunk_chapter_idx = <<>>
    /\ ci = 0
    /\ MainIdle
    /\ pc = "preprocess_text"

laterVars == <<joinVars, text, matches, mi, chapters, chunkVars>>

----------------------------------------------------------------------------
(* preprocess_text as a state machine: steps 1 and 2, then one step per     *)
(* iteration of the line loop, then steps 4 and 5 and the return.           *)

\* text = normalize_newlines(text); repeating_lines = ...; lines = text.split('\n')
BeginPreprocess ==
    /\ pc = "preprocess_text"
    /\ repeating_lines' \in (IF page_texts /= <<>>
                             THEN find_repeating_headers_footers(page_texts)
                             ELSE {{}})
    /\ lines' = SplitNL(normalize_newlines(raw_text))
    /\ line_i' = 1
    /\ processed_lines' = <<>>
    /\ pc' = "line_loop"
    /\ UNCHANGED <<raw_text, page_texts, results, laterVars>>

\* if is_page_number_line(stripped): i += 1; continue
SkipPageNumber ==
    /\ pc = "line_loop"
    /\ line_i <= Len(lines)
    /\ is_page_number_line(Strip(lines[line_i]))
    /\ line_i' = line_i + 1
    /\ UNCHANGED <<raw_text, page_texts, repeating_lines, lines, processed_lines, results,
                   pc, laterVars>>

\* if stripped in repeating_lines: i += 1; continue
SkipRepeatingLine ==
    /\ pc = "line_loop"
    /\ line_i <= Len(lines)
    /\ ~is_page_number_line(Strip(lines[line_i]))
    /\ Strip(lines[line_i]) \in repeating_lines
    /\ line_i' = line_i + 1
    /\ UNCHANGED <<raw_text, page_texts, repeating_lines, lines, processed_lines, results,
                   pc, laterVars>>

\* the lines of the loop that test one line, in the order of the code
IsSkipped(ls, i, rep) == is_page_number_line(Strip(ls[i])) \/ Strip(ls[i]) \in rep

\* if not stripped: keep one blank line after a line that is not blank
SkipBlankLine ==
    /\ pc = "line_loop"
    /\ line_i <= Len(lines)
    /\ ~IsSkipped(lines, line_i, repeating_lines)
    /\ Strip(lines[line_i]) = <<>>
    /\ processed_lines' =
          IF processed_lines /= <<>> /\ Strip(processed_lines[Len(processed_lines)]) /= <<>>
          THEN Append(processed_lines, <<>>)
          ELSE processed_lines
    /\ line_i' = line_i + 1
    /\ UNCHANGED <<raw_text, page_texts, repeating_lines, lines, results, pc, laterVars>>

\* the test before the join
JoinsNext(ls, i) ==
    /\ i + 1 <= Len(ls)
    /\ should_join_lines(ls[i], ls[i + 1])
    /\ ~is_page_number_line(Strip(ls[i + 1]))

\* lines[i + 1] = stripped + ' ' + join_next.strip(); i += 1; continue
JoinWithNext ==
    /\ pc = "line_loop"
    /\ line_i <= Len(lines)
    /\ ~IsSkipped(lines, line_i, repeating_lines)
    /\ Strip(lines[line_i]) /= <<>>
    /\ JoinsNext(lines, line_i)
    /\ lines' = [lines EXCEPT ![line_i + 1] =
                    Strip(lines[line_i]) \o <<"SP">> \o Strip(lines[line_i + 1])]
    /\ line_i' = line_i + 1
    /\ UNCHANGED <<raw_text, page_texts, repeating_lines, processed_lines, results, pc,
                   laterVars>>

\* processed_lines.append(stripped); i += 1
KeepLine ==
    /\ pc = "line_loop"
    /\ line_i <= Len(lines)
    /\ ~IsSkipped(lines, line_i, repeating_lines)
    /\ Strip(lines[line_i]) /= <<>>
    /\ ~JoinsNext(lines, line_i)
    /\ processed_lines' = Append(processed_lines, Strip(lines[line_i]))
    /\ line_i' = line_i + 1
    /\ UNCHANGED <<raw_text, page_texts, repeating_lines, lines, results, pc, laterVars>>

\* steps 4 and 5 and the return value, from the lines kept
FinalText(processed) ==
    Strip(CollapseNewlines(normalize_chapter_title(JoinLines(processed))))

\* result = '\n'.join(processed_lines); ...; return result.strip()
ReturnText ==
    /\ pc = "line_loop"
    /\ line_i > Len(lines)
    /\ results' = Append(results, FinalText(processed_lines))
    /\ pc' = "text_returned"
    /\ UNCHANGED <<raw_text, page_texts, repeating_lines, lines, line_i, processed_lines,
                   laterVars>>

\* preprocess_text is called again with the same arguments
CallAgain ==
    /\ pc = "text_returned"
    /\ Len(results) < MaxCalls
    /\ repeating_lines' = {}
    /\ lines' = <<>>
    /\ line_i' = 0
    /\ processed_lines' = <<>>
    /\ pc' = "preprocess_text"
    /\ UNCHANGED <<raw_text, page_texts, results, laterVars>>

PreNext ==
    \/ BeginPreprocess
    \/ SkipPageNumber
    \/ SkipRepeatingLine
    \/ SkipBlankLine
    \/ JoinWithNext
    \/ KeepLine
    \/ ReturnText
    \/ CallAgain

SpecPre == PreInit /\ [][PreNext]_vars

----------------------------------------------------------------------------
(* Properties of preprocess_text, checked under SpecPre *)

\* the string the last finished call returned
Output == results[Len(results)]

\* the trimmed lines of the pages of page_texts
PageLines ==
    UNION {{Strip(SplitNL(page_texts[r].page)[j]) : j \in DOMAIN SplitNL(page_texts[r].page)} :
              r \in DOMAIN page_texts}

\* line, trimmed, is a line of the page
IsOnPage(line, page) == \E j \in DOMAIN SplitNL(page) : IsTrimOf(line, SplitNL(page)[j])

\* the number of pages of page_texts that have the line
PagesWith(line) ==
    SumSeq([r \in DOMAIN page_texts |->
                IF IsOnPage(line, page_texts[r].page) THEN page_texts[r].count ELSE 0])

\* the number of pages of page_texts
PageCount == SumSeq([r \in DOMAIN page_texts |-> page_texts[r].count])

\* the line has 3 to 40 characters
IsShortLine(line) == 3 <= StrLen(line) /\ StrLen(line) <= 40

\* the line is on at least 30% of the pages
IsOnManyPages(line) == 10 * PagesWith(line) >= 3 * PageCount

\* C13: the removal set is empty for fewer than 3 pages; for 3 to 200 pages
\* it is exactly the set of trimmed lines of 3 to 40 characters that are on
\* at least threshold * pageCount pages (threshold = 0.3), each page counted
\* once per line.
C13_RepeatingLines ==
    (pc = "line_loop" /\ page_texts /= <<>>) =>
        IF PageCount < 3 THEN repeating_lines = {}
        ELSE PageCount <= 200 =>
                repeating_lines = {line \in PageLines : IsShortLine(line) /\ IsOnManyPages(line)}

\* h stands in s as a whole: between whitespace or the ends of s
OccursIn(h, s) ==
    \E i \in 1..Len(s) : \E j \in i..Len(s) :
        /\ SubSeq(s, i, j) = h
        /\ i = 1 \/ IsSpace(s[i - 1])
        /\ j = Len(s) \/ IsSpace(s[j + 1])

\* C14: with page texts (3 to 200 pages, so that every page is counted), a
\* line of 3 to 40 characters that is on at least 30% of the pages does not
\* occur in the returned text, whatever the lines around it in the raw text.
C14_BoilerplateAbsent ==
    (pc = "text_returned" /\ PageCount >= 3 /\ PageCount <= 200) =>
        \A h \in PageLines :
            (IsShortLine(h) /\ IsOnManyPages(h)) => ~OccursIn(h, Output)

\* the trimmed lines of the raw text
RawLines ==
    {Strip(SplitNL(normalize_newlines(raw_text))[j]) :
        j \in DOMAIN SplitNL(normalize_newlines(raw_text))}

\* C15: with page texts of 3 or more pages, a line of 3 to 40 characters that
\* is on one page only and is not a page-number line is not in the removal
\* set, and when the raw text has it the returned text has it too.
C15_UniqueLineRetained ==
    (pc \in {"line_loop", "text_returned"} /\ PageCount >= 3) =>
        \A h \in PageLines :
            (IsShortLine(h) /\ PagesWith(h) = 1 /\ ~is_page_number_line(h)) =>
                /\ h \notin repeating_lines
                /\ (pc = "text_returned" /\ h \in RawLines) => OccursIn(h, Output)

\* C24: in the lines the line pass has kept, no non-blank line is directly
\* followed by a non-blank line that should_join_lines would join to it.
C24_MergeFixpoint ==
    pc = "text_returned" =>
        \A k \in 1..(Len(processed_lines) - 1) :
            (processed_lines[k] /= <<>> /\ processed_lines[k + 1] /= <<>>) =>
                ~should_join_lines(processed_lines[k], processed_lines[k + 1])

\* the text normalize_chapter_title is given, and its lines
KeptText == JoinLines(processed_lines)
KeptLines == SplitNL(KeptText)

\* the lines of what normalize_chapter_title returns
NormalizedLines == SplitNL(normalize_chapter_title(KeptText))

\* C26: normalize_chapter_title changes chapter-heading lines only: the
\* text has as many lines after the step as before, and every line that is
\* not a chapter heading (one that has the word, number and separator after
\* other words included) is the same before and after.
C26_OnlyHeadingsChange ==
    pc = "text_returned" =>
        /\ Len(NormalizedLines) = Len(KeptLines)
        /\ \A k \in DOMAIN KeptLines :
              (k \in DOMAIN NormalizedLines /\ ~is_chapter_heading(KeptLines[k])) =>
                  NormalizedLines[k] = KeptLines[k]

----------------------------------------------------------------------------
(* should_join_lines on its own *)

JoinAlphabet == {"a", "A", "1", ".", "-", "SP", "chuong"}

\* every line of at most MaxJoinLen characters, and some longer ones
JoinInputs ==
    Str(JoinAlphabet, MaxJoinLen)
        \cup { <<"chuong", "SP", "1">>,
               <<"SP", "chuong", "SP", "1", "SP">>,
               <<"chuong", "SP", "1", "-">>,
               <<"chuong", "SP", "1", "a">>,
               <<"a", "SP", "chuong", "SP", "1">>,
               <<"Chuong", "SP", "1", ":", "SP", "A">>,
               <<"a", "SP", "EM">>,
               <<"EM", "a">> }

JoinInit ==
    /\ join_current \in JoinInputs
    /\ join_next \in JoinInputs
    /\ join_result = FALSE
    /\ raw_text = <<>>
    /\ page_texts = <<>>
    /\ repeating_lines = {}
    /\ lines = <<>>
    /\ line_i = 0
    /\ processed_lines = <<>>
    /\ results = <<>>
    /\ text = <<>>
    /\ matches = <<>>
    /\ mi = 0
    /\ chapters = <<>>
    /\ max_chars = 0
    /\ all_chunks = <<>>
    /\ chunk_chapter_idx = <<>>
    /\ ci = 0
    /\ MainIdle
    /\ pc = "should_join_lines"

\* the call and its return
ReturnJoin ==
    /\ pc = "should_join_lines"
    /\ join_result' = should_join_lines(join_current, join_next)
    /\ pc' = "join_returned"
    /\ UNCHANGED <<raw_text, page_texts, repeating_lines, lines, line_i, processed_lines,
                   results, join_current, join_next, text, matches, mi, chapters, chunkVars>>

JoinNext == ReturnJoin

SpecJoin == JoinInit /\ [][JoinNext]_vars

\* l, trimmed, is the word, one or more spaces and 1 to 5 digits, followed
\* by nothing or by optional spaces and a separator
IsHeadingStart(l) ==
    \E s \in {Strip(l)} : \E b \in 1..Len(s) : \E nd \in 1..5 :
        /\ 1 + b + nd <= Len(s)
        /\ s[1] \in ChuongWords
        /\ \A i \in 2..(1 + b) : IsSpace(s[i])
        /\ \A i \in (2 + b)..(1 + b + nd) : IsDigit(s[i])
        /\ \/ 1 + b + nd = Len(s)
           \/ \E c \in (2 + b + nd)..Len(s) :
                /\ \A i \in (2 + b + nd)..(c - 1) : IsSpace(s[i])
                /\ IsSeparator(s[c])

IsBlank(l) == \A i \in DOMAIN l : IsSpace(l[i])

\* the last character of l that is not whitespace, the first one that is not
LastChar(l) == l[CHOOSE i \in DOMAIN l : ~IsSpace(l[i]) /\ \A j \in (i + 1)..Len(l) : IsSpace(l[j])]
FirstChar(l) == l[CHOOSE i \in DOMAIN l : ~IsSpace(l[i]) /\ \A j \in 1..(i - 1) : IsSpace(l[j])]

\* C16: should_join_lines(current, next) is true exactly when neither line
\* is empty after trimming, neither is a chapter heading, current does not
\* end with a sentence-ending mark, and next starts neither with a bullet or
\* dash marker nor with an upper-case letter (a digit does not block).
C16_ShouldJoin ==
    pc = "join_returned" =>
        (join_result <=>
            /\ ~IsBlank(join_current) /\ ~IsBlank(join_next)
            /\ ~IsHeadingStart(join_current) /\ ~IsHeadingStart(join_next)
            /\ ~IsSentenceEnding(LastChar(join_current))
            /\ ~IsLineStartBlock(FirstChar(join_next))
            /\ ~(FirstChar(join_next) \in {"A", "Chuong", "CHUONG", "Page"}))

\* two lines joined, the second of them starting with a digit
C16_Witness ==
    /\ pc = "join_returned"
    /\ join_result
    /\ IsDigit(FirstChar(join_next))

\* the lines of the returned text
OutputLines == SplitNL(Output)

\* l is a heading line with a separator of the set seps and a title: the
\* word, spaces, 1 to 5 digits, optional spaces, the separator, optional
\* spaces, the title
IsTitledHeading(l, seps) ==
    \E b \in 1..Len(l) : \E nd \in 1..5 : \E c \in 1..Len(l) :
        /\ c > 1 + b + nd
        /\ c < Len(l)
        /\ l[1] \in ChuongWords
        /\ \A i \in 2..(1 + b) : l[i] = "SP"
        /\ \A i \in (2 + b)..(1 + b + nd) : IsDigit(l[i])
        /\ \A i \in (2 + b + nd)..(c - 1) : l[i] = "SP"
        /\ l[c] \in seps
        /\ \E i \in (c + 1)..Len(l) : l[i] /= "SP"

\* l has the form "<word> N: Title" for one of the words: the word, one
\* space, the digits, a colon, one space, the title
IsCanonicalHeading(l, words) ==
    \E nd \in 1..5 :
        /\ Len(l) >= 5 + nd
        /\ l[1] \in words
        /\ l[2] = "SP"
        /\ \A i \in 3..(2 + nd) : IsDigit(l[i])
        /\ l[3 + nd] = ":"
        /\ l[4 + nd] = "SP"
        /\ l[5 + nd] /= "SP"

InputLines == SplitNL(normalize_newlines(raw_text))

\* the line o is the heading of line l: both are chapter headings, with the
\* same number and the same title
IsSameHeading(o, l) ==
    /\ MatchAt(o, 0).ok
    /\ MatchAt(l, 0).ok
    /\ MatchAt(o, 0).digits = MatchAt(l, 0).digits
    /\ Strip(MatchAt(o, 0).title) = Strip(MatchAt(l, 0).title)

\* C18: every chapter heading of the raw text is a line of the returned
\* text, with its number and its title: it is not dropped and not joined to
\* the line before it or to the line after it.
C18_HeadingsPreserved ==
    pc = "text_returned" =>
        \A j \in DOMAIN InputLines :
            MatchAt(InputLines[j], 0).ok =>
                \E k \in DOMAIN OutputLines : IsSameHeading(OutputLines[k], InputLines[j])

\* C19: the calls of preprocess_text made with the same raw text and the
\* same page texts all return the same string.
C19_Deterministic ==
    \A i \in DOMAIN results : \A j \in DOMAIN results : results[i] = results[j]

----------------------------------------------------------------------------
(* split_into_chapters followed by create_chunks, as main calls them *)

\* the lines of the documents handed to the segmenter
PipeLines ==
    { <<>>,
      <<"a">>,
      <<"a", ".", "SP", "a">>,
      <<"X", "X", "a">>,
      <<"CHUONG", "SP", "1">>,
      <<"CHUONG", "SP", "0", "1", ":", "a">>,
      <<"CHUONG", "SP", "2">> }

\* every document of at most MaxLines of the lines above
PipeTexts ==
    {JoinLines(ls) : ls \in UNION {[1..k -> PipeLines] : k \in 1..MaxLines}}

PipeInit ==
    /\ PreIdle
    /\ text \in PipeTexts
    /\ matches = <<>>
    /\ mi = 0
    /\ chapters = <<>>
    /\ max_chars \in 0..MaxMaxChars
    /\ all_chunks = <<>>
    /\ chunk_chapter_idx = <<>>
    /\ ci = 0
    /\ MainIdle
    /\ pc = "split_into_chapters"

\* chunks = create_chunks(chapters, max_chars=args.max_chars)
\* (validate_chapters, called in between, only logs warnings)
CallCreateChunks ==
    /\ pc = "chapters_returned"
    /\ pc' = "create_chunks"
    /\ UNCHANGED <<preVars, splitVars, chapters, chunkVars>>

PipeNext ==
    \/ FindHeadings
    \/ ReturnWholeText
    \/ AppendChapter
    \/ InsertPrologue
    \/ ReturnChapters
    \/ CallCreateChunks
    \/ RaiseValueError
    \/ BeginChunking
    \/ ChunkChapter
    \/ ReturnChunks

SpecPipe == PipeInit /\ [][PipeNext]_vars

----------------------------------------------------------------------------
(* Properties of the segmenter and the chunk packer together *)

\* the number of chapters put in front of the chapters of the headings
PrologueOffset == Len(chapters) - Len(matches)

\* the segmenter has returned the chapters of a text with headings
HeadingsSegmented ==
    /\ pc \in {"chapters_returned", "create_chunks", "ValueError",
               "chapter_loop", "chunks_returned"}
    /\ matches /= <<>>

\* headings i and j are written with the same number
SameNumber(i, j) == DecimalValue(matches[i].digits) = DecimalValue(matches[j].digits)

\* the index in all_chunks of the first chunk of chapter k
FirstChunkOf(k) ==
    CHOOSE n \in DOMAIN all_chunks :
        /\ chunk_chapter_idx[n] = k
        /\ \A m \in 1..(n - 1) : chunk_chapter_idx[m] /= k

\* C20: every heading has a Chapter record of its own, in order, carrying
\* the number the heading is written with, so two headings with the same
\* number give two records with that number; and once create_chunks has
\* returned, the first chunks of two such chapters have the same chunk_id.
C20_DuplicateNumbersCollide ==
    /\ HeadingsSegmented =>
          /\ PrologueOffset \in {0, 1}
          /\ \A i \in DOMAIN matches :
                chapters[PrologueOffset + i].number = DecimalValue(matches[i].digits)
    /\ (HeadingsSegmented /\ pc = "chunks_returned") =>
          \A i, j \in DOMAIN matches :
              (i < j /\ SameNumber(i, j)) =>
                  /\ \E n \in DOMAIN all_chunks : chunk_chapter_idx[n] = PrologueOffset + i
                  /\ \E n \in DOMAIN all_chunks : chunk_chapter_idx[n] = PrologueOffset + j
                  /\ all_chunks[FirstChunkOf(PrologueOffset + i)].chunk_id
                        = all_chunks[FirstChunkOf(PrologueOffset + j)].chunk_id

\* two headings written '1' and '01', the first chapter cut into parts and
\* the second in one piece, both chunked
C20_Witness ==
    /\ pc = "chunks_returned"
    /\ Len(matches) = 2
    /\ Len(chapters) = 2
    /\ matches[1].digits /= matches[2].digits
    /\ chapters[1].number = chapters[2].number
    /\ all_chunks[FirstChunkOf(1)].total_parts > 1
    /\ all_chunks[FirstChunkOf(2)].total_parts = 1
    /\ all_chunks[FirstChunkOf(1)].chunk_id = all_chunks[FirstChunkOf(2)].chunk_id

----------------------------------------------------------------------------
(* main.py and checkpoint.py step by step: the checkpoint set-up of a run, *)
(* the processing loop with mark_chunk_done and _save taken one statement  *)
(* at a time, the ways a run ends, and later runs on the same output       *)
(* directory.                                                              *)

\* the values each parameter checked by CheckpointManager.initialize takes
InputHashes == {"h1", "h2"}
Modes == {"polish_vi", "translate_en"}
Models == {"gemini-1.5-pro", "gemini-1.5-flash"}
Providers == {"studio", "vertex"}
MaxCharsValues == {1, MaxMaxChars}

\* the parameters of the first run
FirstParams ==
    {[input_hash |-> "h1", mode |-> "polish_vi", model |-> "gemini-1.5-pro",
      max_chars |-> m, provider |-> "studio"] : m \in MaxCharsValues}

\* the parameters of a later run: those of the run before, or those with one
\* parameter changed
LaterParams(p) ==
    {p} \cup {[p EXCEPT !.input_hash = h] : h \in InputHashes}
        \cup {[p EXCEPT !.mode = m] : m \in Modes}
        \cup {[p EXCEPT !.model = m] : m \in Models}
        \cup {[p EXCEPT !.max_chars = m] : m \in MaxCharsValues}
        \cup {[p EXCEPT !.provider = v] : v \in Providers}

\* the chapters of the document: one or two, numbers possibly repeated
RunChapters == {Chapter(n, <<"T">>, s) : n \in {1, 2}, s \in {<<"a">>, <<"a", "NL", "NL", "a">>}}
RunChapterLists == UNION {[1..k -> RunChapters] : k \in 1..2}

\* main has made the chunks of its first run; the output directory is new
RunInit ==
    /\ PreIdle
    /\ chapters \in RunChapterLists
    /\ run_params \in FirstParams
    /\ overwrite \in BOOLEAN
    /\ max_chars = run_params.max_chars
    /\ all_chunks = create_chunks(chapters, max_chars)
    /\ chunk_chapter_idx = ChunkChapterIndices(chapters, max_chars, 1)
    /\ ci = Len(chapters) + 1
    /\ text = <<>>
    /\ matches = <<>>
    /\ mi = 0
    /\ chunks_done = {}
    /\ checkpoint_file = {}
    /\ checkpoint_status = "absent"
    /\ checkpoint_params = NoParams
    /\ prev_run = NoRun
    /\ chunk_files = <<>>
    /\ li = 0
    /\ api_calls = <<>>
    /\ chunk_outputs = <<>>
    /\ runs = 1
    /\ GenIdle
    /\ pc = "checkpoint_setup"

\* the variables a step of the processing loop never changes
fixedVars == <<preVars, pipelineVars, run_params, overwrite, prev_run, genVars, runs>>

\* checkpoint.clear(): self.checkpoint_path.unlink()
ClearCheckpoint ==
    /\ pc = "checkpoint_setup"
    /\ overwrite
    /\ checkpoint_status' = "absent"
    /\ checkpoint_params' = NoParams
    /\ checkpoint_file' = {}
    /\ pc' = "clear_chunks"
    /\ UNCHANGED <<fixedVars, chunks_done, chunk_files, li, api_calls, chunk_outputs>>

\* checkpoint.clear(): unlink every chunk file; self._chunks_done = set()
ClearChunkFiles ==
    /\ pc = "clear_chunks"
    /\ chunk_files' = <<>>
    /\ chunks_done' = {}
    /\ pc' = "initialize"
    /\ UNCHANGED <<fixedVars, checkpoint_status, checkpoint_params, checkpoint_file, li,
                   api_calls, chunk_outputs>>

\* main is at the call of checkpoint.initialize
AtInitialize == pc = "initialize" \/ (pc = "checkpoint_setup" /\ ~overwrite)

\* checkpoint.json can be loaded and its parameters are those of this run
\* (ResumableAnyParams: the file can be loaded)
ResumableAnyParams == checkpoint_status = "saved"
Resumable == checkpoint_status = "saved" /\ checkpoint_params = run_params

\* initialize: self._chunks_done = set(existing.chunks_done); return True
ResumeFromCheckpoint ==
    /\ AtInitialize
    /\ Resumable
    /\ chunks_done' = checkpoint_file
    /\ li' = 1
    /\ pc' = "process_chunks"
    /\ UNCHANGED <<fixedVars, checkpoint_status, checkpoint_params, checkpoint_file,
                   chunk_files, api_calls, chunk_outputs>>

\* initialize: no checkpoint, one that cannot be loaded, or one with other
\* parameters: self._chunks_done = set(), then self._save()
StartFresh ==
    /\ AtInitialize
    /\ ~Resumable
    /\ chunks_done' = {}
    /\ pc' = "init_save_open"
    /\ UNCHANGED <<fixedVars, checkpoint_status, checkpoint_params, checkpoint_file,
                   chunk_files, li, api_calls, chunk_outputs>>

\* _save: open(self.checkpoint_path, 'w') leaves an empty file
SaveOpen ==
    /\ pc \in {"init_save_open", "mark_save_open"}
    /\ checkpoint_status' = "partial"
    /\ checkpoint_params' = NoParams
    /\ checkpoint_file' = {}
    /\ pc' = IF pc = "init_save_open" THEN "init_save_dump" ELSE "mark_save_dump"
    /\ UNCHANGED <<fixedVars, chunks_done, chunk_files, li, api_calls, chunk_outputs>>

\* _save: json.dump(self._data.to_dict(), f), then back to the caller: the
\* loop starts after initialize, goes to the next chunk after mark_chunk_done
SaveDump ==
    /\ pc \in {"init_save_dump", "mark_save_dump"}
    /\ checkpoint_status' = "saved"
    /\ checkpoint_params' = run_params
    /\ checkpoint_file' = chunks_done
    /\ li' = IF pc = "init_save_dump" THEN 1 ELSE li + 1
    /\ pc' = "process_chunks"
    /\ UNCHANGED <<fixedVars, chunks_done, chunk_files, api_calls, chunk_outputs>>

\* output_text = client.generate(user_prompt) returns
\* (CallGenerateNoStore: the same, going on to the next chunk at once)
CallGenerateNoStore ==
    /\ pc = "process_chunks"
    /\ li <= Len(all_chunks)
    /\ ~is_chunk_done(all_chunks[li].chunk_id)
    /\ api_calls' = Append(api_calls, li)
    /\ li' = li + 1
    /\ UNCHANGED <<fixedVars, runVars, chunks_done, checkpoint_file, chunk_files,
                   chunk_outputs, pc>>
CallGenerate ==
    /\ pc = "process_chunks"
    /\ li <= Len(all_chunks)
    /\ ~is_chunk_done(all_chunks[li].chunk_id)
    /\ api_calls' = Append(api_calls, li)
    /\ pc' = "write_chunk_file"
    /\ UNCHANGED <<fixedVars, checkpoint_status, checkpoint_params, chunks_done,
                   checkpoint_file, chunk_files, li, chunk_outputs>>

\* mark_chunk_done: with open(chunk_file, 'w') as f: f.write(output_text)
\* (WriteChunkOutputLater: the same without the write)
WriteChunkOutputLater ==
    /\ pc = "write_chunk_file"
    /\ pc' = "record_done"
    /\ UNCHANGED <<fixedVars, checkpoint_status, checkpoint_params, chunks_done,
                   checkpoint_file, chunk_files, li, api_calls, chunk_outputs>>
WriteChunkOutput ==
    /\ pc = "write_chunk_file"
    /\ LET chunk == all_chunks[li]
       IN  chunk_files' = WriteChunkFile(chunk_files, chunk.chunk_id,
                                         Generate(build_user_prompt(chunk)))
    /\ pc' = "record_done"
    /\ UNCHANGED <<fixedVars, checkpoint_status, checkpoint_params, chunks_done,
                   checkpoint_file, li, api_calls, chunk_outputs>>

\* mark_chunk_done: self._chunks_done.add(chunk_id);
\* self._data.chunks_done = list(self._chunks_done)
RecordDone ==
    /\ pc = "record_done"
    /\ chunks_done' = chunks_done \cup {all_chunks[li].chunk_id}
    /\ pc' = "mark_save_open"
    /\ UNCHANGED <<fixedVars, checkpoint_status, checkpoint_params, checkpoint_file,
                   chunk_files, li, api_calls, chunk_outputs>>

\* the positions of a run at which it can be interrupted
RunningAt ==
    {"checkpoint_setup", "clear_chunks", "initialize", "init_save_open", "init_save_dump",
     "process_chunks", "write_chunk_file", "record_done", "mark_save_open", "mark_save_dump"}

\* KeyboardInterrupt at any statement: sys.exit(130)
KeyboardInterrupt ==
    /\ pc \in RunningAt
    /\ pc' = "exit_130"
    /\ UNCHANGED <<preVars, pipelineVars, mainVars>>

\* main is started again on the same output directory, with the parameters
\* of the run before or with one of them changed
StartRun ==
    /\ pc \in {"exit_2", "exit_130", "done"}
    /\ runs < MaxRuns
    /\ runs' = runs + 1
    /\ prev_run' = IF pc = "exit_2"
                   THEN [exit |-> pc, params |-> run_params, done |-> chunks_done]
                   ELSE NoRun
    /\ run_params' \in LaterParams(run_params)
    /\ overwrite' \in BOOLEAN
    /\ max_chars' = run_params'.max_chars
    /\ all_chunks' = create_chunks(chapters, max_chars')
    /\ chunk_chapter_idx' = ChunkChapterIndices(chapters, max_chars', 1)
    /\ chunks_done' = {}
    /\ li' = 0
    /\ api_calls' = <<>>
    /\ chunk_outputs' = <<>>
    /\ pc' = "checkpoint_setup"
    /\ UNCHANGED <<preVars, text, matches, mi, chapters, ci, checkpoint_status,
                   checkpoint_params, checkpoint_file, chunk_files, genVars>>

RunNext ==
    \/ ClearCheckpoint
    \/ ClearChunkFiles
    \/ ResumeFromCheckpoint
    \/ StartFresh
    \/ SaveOpen
    \/ SaveDump
    \/ SkipDoneChunk
    \/ CallGenerate
    \/ ApiError
    \/ WriteChunkOutput
    \/ RecordDone
    \/ Export
    \/ KeyboardInterrupt
    \/ StartRun

SpecRun == RunInit /\ [][RunNext]_vars

----------------------------------------------------------------------------
(* Properties of the runs of main, checked under SpecRun *)

\* the step is a step of one run (not the start of a later run)
SameRun == runs' = runs

\* the calls of client.generate made in this run for chunk j
CallsOf(j) == {k \in DOMAIN api_calls : api_calls[k] = j}

\* C22: within a run, a call of the transformer is made for the chunk the
\* loop is at, only if the checkpoint does not report it done, at most once,
\* and only when every earlier chunk is done (skipped or stored); the loop
\* moves on one chunk at a time, and when it leaves a chunk that chunk is
\* done: without a call if it was reported done, and with its output file
\* written and its id saved in checkpoint.json if it was sent.
C22_SequentialCalls ==
    [][SameRun =>
         /\ api_calls' /= api_calls =>
               /\ li \in DOMAIN all_chunks
               /\ api_calls' = Append(api_calls, li)
               /\ CallsOf(li) = {}
               /\ ~is_chunk_done(all_chunks[li].chunk_id)
               /\ \A i \in 1..(li - 1) : is_chunk_done(all_chunks[i].chunk_id)
         /\ (li' /= li /\ li >= 1) =>
               /\ li' = li + 1
               /\ api_calls' = api_calls
               /\ all_chunks[li].chunk_id \in chunks_done'
               /\ all_chunks[li].chunk_id \in DOMAIN chunk_files'
               /\ CallsOf(li) = {} => is_chunk_done(all_chunks[li].chunk_id)
               /\ CallsOf(li) /= {} =>
                     /\ chunk_files'[all_chunks[li].chunk_id]
                           = Generate(build_user_prompt(all_chunks[li]))
                     /\ all_chunks[li].chunk_id \in checkpoint_file'
    ]_vars

\* a resumed run at the end of its loop: three chunks or more, some skipped
\* and some sent to the transformer
C22_Witness ==
    /\ pc = "process_chunks"
    /\ runs = 2
    /\ li > Len(all_chunks)
    /\ Len(all_chunks) >= 3
    /\ api_calls /= <<>>
    /\ Len(api_calls) < Len(all_chunks)
    /\ \A j \in DOMAIN all_chunks : is_chunk_done(all_chunks[j].chunk_id)

\* C28: the output file of a chunk is written before its id is recorded as
\* done and before the checkpoint is saved: in every state, whatever
\* statement a run was interrupted at, every id in the done set and every id
\* listed in checkpoint.json has its output file, and is_chunk_done is true
\* only for an id in the done set whose file exists.
C28_FileBeforeCheckpoint ==
    /\ \A id \in checkpoint_file : id \in DOMAIN chunk_files
    /\ \A id \in chunks_done : id \in DOMAIN chunk_files
    /\ checkpoint_status /= "saved" => checkpoint_file = {}
    /\ \A j \in DOMAIN all_chunks :
          is_chunk_done(all_chunks[j].chunk_id) =>
              /\ all_chunks[j].chunk_id \in chunks_done
              /\ all_chunks[j].chunk_id \in DOMAIN chunk_files

\* a run interrupted inside mark_chunk_done after an earlier chunk was
\* saved: a file is written whose id checkpoint.json does not list yet
C28_Witness ==
    /\ pc = "exit_130"
    /\ checkpoint_status = "saved"
    /\ checkpoint_file /= {}
    /\ \E id \in DOMAIN chunk_files : id \notin checkpoint_file /\ id \in chunks_done

\* main is at the first chunk of the loop, nothing examined yet
AtLoopStart == pc = "process_chunks" /\ li = 1 /\ api_calls = <<>>

\* the chunks of this run that the checkpoint reports done
DoneChunks == {j \in DOMAIN all_chunks : is_chunk_done(all_chunks[j].chunk_id)}

\* the run before this one was stopped by an API error
AfterApiError == prev_run.exit = "exit_2"

\* what C29 says of the failing run: the failed call is the last one, the
\* done set is what checkpoint.json lists, with every output file in place
\* and no export made
StoppedByApiError ==
    pc = "exit_2" =>
        /\ api_calls /= <<>>
        /\ api_calls[Len(api_calls)] = li
        /\ chunk_outputs = <<>>
        /\ checkpoint_status = "saved"
        /\ checkpoint_params = run_params
        /\ checkpoint_file = chunks_done
        /\ \A id \in chunks_done : id \in DOMAIN chunk_files

\* the failing step changes nothing on disk nor in the done set, and the
\* only step after it is the start of a later run, with disk unchanged
ApiErrorKeepsState ==
    /\ (pc /= "exit_2" /\ pc' = "exit_2") =>
          UNCHANGED <<chunks_done, checkpoint_status, checkpoint_params, checkpoint_file,
                      chunk_files, chunk_outputs, li>>
    /\ pc = "exit_2" =>
          /\ runs' = runs + 1
          /\ UNCHANGED <<checkpoint_status, checkpoint_params, checkpoint_file, chunk_files>>

\* C29 as stated: an API error stops the run with exit code 2, nothing
\* more is sent or exported and the done set is kept; the next run resumes
\* with that done set, skipping exactly its chunks, when input file, mode,
\* model, max_chars and provider are the same, and starts with an empty done
\* set when one of them differs.
C29_ResumeAfterApiError ==
    /\ [](/\ StoppedByApiError
          /\ (AtLoopStart /\ AfterApiError) =>
                IF run_params = prev_run.params
                THEN /\ chunks_done = prev_run.done
                     /\ DoneChunks = {j \in DOMAIN all_chunks :
                                         all_chunks[j].chunk_id \in prev_run.done}
                ELSE chunks_done = {} /\ DoneChunks = {})
    /\ [][ApiErrorKeepsState]_vars

\* C29 amended: the same, where the next run resumes when the parameters
\* are the same and it is started without --overwrite, and starts with an
\* empty done set when a parameter differs or --overwrite is given.
C29_ResumeUnlessOverwrite ==
    /\ [](/\ StoppedByApiError
          /\ (AtLoopStart /\ AfterApiError) =>
                IF run_params = prev_run.params /\ ~overwrite
                THEN /\ chunks_done = prev_run.done
                     /\ DoneChunks = {j \in DOMAIN all_chunks :
                                         all_chunks[j].chunk_id \in prev_run.done}
                ELSE chunks_done = {} /\ DoneChunks = {})
    /\ [][ApiErrorKeepsState]_vars

\* a run resumed after an API error, about to skip a chunk the failed run
\* had stored and to send another one
C29_Witness ==
    /\ AtLoopStart
    /\ AfterApiError
    /\ run_params = prev_run.params
    /\ ~overwrite
    /\ DoneChunks /= {}
    /\ DoneChunks /= DOMAIN all_chunks

----------------------------------------------------------------------------
(* Conservation of text by create_chunks, checked under SpecChunk *)

RECURSIVE ConcatSeqs(_)
\* the strings of a list, one after the other
ConcatSeqs(ss) == IF ss = <<>> THEN <<>> ELSE Head(ss) \o ConcatSeqs(Tail(ss))

\* C27: once create_chunks has returned, every chapter has at least one
\* chunk, each carrying the chapter's number and title, and the texts of its
\* chunks in part order hold, whitespace aside, exactly the characters of
\* the chapter's trimmed text in the same order.
C27_PackingConservesText ==
    pc = "chunks_returned" =>
        \A k \in DOMAIN chapters :
            /\ ChunksOfChapter(k) /= {}
            /\ \A j \in ChunksOfChapter(k) :
                  /\ all_chunks[j].chapter_number = chapters[k].number
                  /\ all_chunks[j].chapter_title = chapters[k].title
            /\ NoSpace(ConcatSeqs(ChunkTextsOfChapter(k))) = NoSpace(Strip(chapters[k].text))

\* a chapter with empty text next to one cut into two parts that leave out
\* the blank line of its text
C27_Witness ==
    /\ pc = "chunks_returned"
    /\ Len(chapters) = 2
    /\ chapters[1].text = <<>>
    /\ Cardinality(ChunksOfChapter(1)) = 1
    /\ Cardinality(ChunksOfChapter(2)) = 2
    /\ ConcatSeqs(ChunkTextsOfChapter(2)) /= Strip(chapters[2].text)

----------------------------------------------------------------------------
(* gemini_client.py: GeminiClient.generate.  An error message is a         *)
(* sequence of pieces of text; the pieces the code searches for ('rate',   *)
(* 'quota', '429', 'timeout', '503', '500') are pieces of their own, so    *)
(* that a message holds one of them as a substring exactly when it has the *)
(* piece.                                                                  *)

\* str.lower() of one piece
LowerPiece(c) ==
    CASE c = "Rate" -> "rate"
      [] c = "RATE" -> "rate"
      [] c = "Quota" -> "quota"
      [] c = "Timeout" -> "timeout"
      [] OTHER -> c

\* str(e).lower()
Lower(msg) == [i \in DOMAIN msg |-> LowerPiece(msg[i])]

\* piece in error_msg
Contains(msg, piece) == \E i \in DOMAIN msg : msg[i] = piece

\* 'rate' in error_msg or 'quota' in error_msg or '429' in error_msg
IsRateLimited(error_msg) ==
    Contains(error_msg, "rate") \/ Contains(error_msg, "quota") \/ Contains(error_msg, "429")

\* 'timeout' in error_msg or '503' in error_msg or '500' in error_msg
IsTransient(error_msg) ==
    Contains(error_msg, "timeout") \/ Contains(error_msg, "503") \/ Contains(error_msg, "500")

\* the error is answered by a sleep and another turn of the loop
IsRetried(msg) == IsRateLimited(Lower(msg)) \/ IsTransient(Lower(msg))

RECURSIVE Pow2(_)
\* 2 ** n
Pow2(n) == IF n = 0 THEN 1 ELSE 2 * Pow2(n - 1)

\* the messages of the exceptions self._model.generate_content raises
ErrorMessages ==
    { <<"429", " resource exhausted">>,
      <<"Quota", " exceeded">>,
      <<"Rate", " limit reached">>,
      <<"400 * gene", "rate", "contentrequest.contents: not specified">>,
      <<"503", " service unavailable">>,
      <<"500", " internal error">>,
      <<"Timeout", " of 600s exceeded">>,
      <<"504 deadline exceeded">>,
      <<"403 permission denied">> }

\* the texts of the responses
ResponseTexts == {<<"t1">>, <<"t2">>}

\* the message GeminiClientError is raised with
GeminiClientError(msg) == [kind |-> "GeminiClientError", value |-> msg]

\* the text returned
Returned(txt) == [kind |-> "return", value |-> txt]

GenerateInit ==
    /\ PreIdle
    /\ text = <<>>
    /\ matches = <<>>
    /\ mi = 0
    /\ chapters = <<>>
    /\ max_chars = 0
    /\ all_chunks = <<>>
    /\ chunk_chapter_idx = <<>>
    /\ ci = 0
    /\ chunks_done = {}
    /\ checkpoint_file = {}
    /\ chunk_files = <<>>
    /\ li = 0
    /\ api_calls = <<>>
    /\ chunk_outputs = <<>>
    /\ runs = 0
    /\ RunIdle
    /\ model_set \in BOOLEAN
    /\ max_retries \in 0..MaxRetries
    /\ retry_delay \in {2, 3}
    /\ attempt = 0
    /\ model_calls = 0
    /\ sleeps = <<>>
    /\ last_error = <<>>
    /\ gen_result = NoResult
    /\ pc = "generate"

\* the variables GeminiClient.generate does not touch
outsideGenerate ==
    <<preVars, pipelineVars, chunks_done, checkpoint_file, chunk_files, li, api_calls,
      chunk_outputs, runs, runVars>>

\* if self._model is None: raise GeminiClientError("System instruction not set. ...")
RaiseModelNotSet ==
    /\ pc = "generate"
    /\ ~model_set
    /\ gen_result' = GeminiClientError(<<"System instruction not set. Call set_system_instruction first.">>)
    /\ pc' = "generate_raised"
    /\ UNCHANGED <<outsideGenerate, model_set, max_retries, retry_delay, attempt, model_calls,
                   sleeps, last_error>>

\* last_error = None; for attempt in range(max_retries)
EnterRetryLoop ==
    /\ pc = "generate"
    /\ model_set
    /\ attempt' = 0
    /\ last_error' = <<>>
    /\ pc' = "retry_loop"
    /\ UNCHANGED <<outsideGenerate, model_set, max_retries, retry_delay, model_calls, sleeps,
                   gen_result>>

\* an iteration in which generate_content answers with a response that has
\* a text (response.text, or the text of the first candidate): return it
ReturnResponseText ==
    /\ pc = "retry_loop"
    /\ attempt < max_retries
    /\ model_calls' = model_calls + 1
    /\ \E txt \in ResponseTexts : gen_result' = Returned(txt)
    /\ pc' = "generate_returned"
    /\ UNCHANGED <<outsideGenerate, model_set, max_retries, retry_delay, attempt, sleeps,
                   last_error>>

\* an iteration in which the response has neither text nor candidates:
\* GeminiClientError("Unexpected response format") is raised inside the try,
\* caught by except Exception and raised again as a non-retryable error
RaiseUnexpectedFormat ==
    /\ pc = "retry_loop"
    /\ attempt < max_retries
    /\ model_calls' = model_calls + 1
    /\ last_error' = <<"Unexpected response format">>
    /\ gen_result' = GeminiClientError(<<"API error: ">> \o last_error')
    /\ pc' = "generate_raised"
    /\ UNCHANGED <<outsideGenerate, model_set, max_retries, retry_delay, attempt, sleeps>>

\* an iteration in which generate_content raises an error whose message
\* holds one of the searched pieces: time.sleep(retry_delay * (2 ** attempt));
\* continue
\* (RetryAfterErrorFixedDelay: the same with time.sleep(retry_delay))
RetryAfterErrorFixedDelay ==
    /\ pc = "retry_loop"
    /\ attempt < max_retries
    /\ model_calls' = model_calls + 1
    /\ \E msg \in ErrorMessages : IsRetried(msg) /\ last_error' = msg
    /\ sleeps' = Append(sleeps, retry_delay)
    /\ attempt' = attempt + 1
    /\ UNCHANGED <<outsideGenerate, model_set, max_retries, retry_delay, gen_result, pc>>
RetryAfterError ==
    /\ pc = "retry_loop"
    /\ attempt < max_retries
    /\ model_calls' = model_calls + 1
    /\ \E msg \in ErrorMessages : IsRetried(msg) /\ last_error' = msg
    /\ sleeps' = Append(sleeps, retry_delay * Pow2(attempt))
    /\ attempt' = attempt + 1
    /\ UNCHANGED <<outsideGenerate, model_set, max_retries, retry_delay, gen_result, pc>>

\* an iteration in which generate_content raises any other error:
\* raise GeminiClientError(f"API error: {e}")
RaiseApiError ==
    /\ pc = "retry_loop"
    /\ attempt < max_retries
    /\ model_calls' = model_calls + 1
    /\ \E msg \in ErrorMessages : ~IsRetried(msg) /\ last_error' = msg
    /\ gen_result' = GeminiClientError(<<"API error: ">> \o last_error')
    /\ pc' = "generate_raised"
    /\ UNCHANGED <<outsideGenerate, model_set, max_retries, retry_delay, attempt, sleeps>>

\* the loop is exhausted:
\* raise GeminiClientError(f"Max retries exceeded. Last error: {last_error}")
RaiseMaxRetries ==
    /\ pc = "retry_loop"
    /\ attempt >= max_retries
    /\ gen_result' = GeminiClientError(<<"Max retries exceeded. Last error: ">> \o last_error)
    /\ pc' = "generate_raised"
    /\ UNCHANGED <<outsideGenerate, model_set, max_retries, retry_delay, attempt, model_calls,
                   sleeps, last_error>>

GenerateNext ==
    \/ RaiseModelNotSet
    \/ EnterRetryLoop
    \/ ReturnResponseText
    \/ RaiseUnexpectedFormat
    \/ RetryAfterError
    \/ RaiseApiError
    \/ RaiseMaxRetries

SpecGenerate == GenerateInit /\ [][GenerateNext]_vars

\* the call is not suspended for ever: Python runs the next statement
SpecGenerateFair == SpecGenerate /\ WF_vars(GenerateNext)

----------------------------------------------------------------------------
(* Properties of GeminiClient.generate, checked under SpecGenerateFair *)

\* the call has ended
GenerateEnded == pc \in {"generate_returned", "generate_raised"}

\* the message of 'Max retries exceeded'
IsMaxRetriesExceeded(msg) == msg /= <<>> /\ msg[1] = "Max retries exceeded. Last error: "

\* the message of a non-retryable error
IsApiError(msg) == msg /= <<>> /\ msg[1] = "API error: "

====
